---- MODULE Spec2Model ----
(***************************************************************************)
(* A model of remy-mcp: the Israeli Land Authority API client              *)
(* (src/src/remy_mcp/client/israeli_land_api.py) and the search_tenders    *)
(* tool built on it (src/src/remy_mcp/tools/tender_tools.py).              *)
(*                                                                         *)
(* Python values are tagged records, so that Python's truth test           *)
(* ("if x:") can be computed as the interpreter computes it.  Strings are  *)
(* sequences of one-character strings, so that strip(), strftime() and     *)
(* strptime() are computed rather than assumed.                            *)
(***************************************************************************)
EXTENDS Integers, Sequences, FiniteSets, TLC

(***************************************************************************)
(* Bounds of the model.                                                    *)
(***************************************************************************)
\* at most this many arguments of one call differ from their defaults
MaxFilters == 2
\* longest settlement name a caller passes
MaxNameLen == 3
\* longest upstream result sequence
MaxResults == 12
\* largest page size and page number a caller passes
MaxPageSize == 6
MaxPageNumber == 4
\* largest rate_limit_delay a client is constructed with, in clock ticks
MaxDelay == 2
\* how many ticks the clock advances during one behaviour
MaxElapsed == 4
\* calls one thread makes in one behaviour when timing is observed
MaxCalls == 3

(***************************************************************************)
(* Python values.                                                          *)
(***************************************************************************)
None == [t |-> "none"]
PyStr(s) == [t |-> "str", v |-> s]
PyList(l) == [t |-> "list", v |-> l]
PyInt(i) == [t |-> "int", v |-> i]
PyBool(b) == [t |-> "bool", v |-> b]
\* a datetime; only its calendar date is ever formatted
Dt(y, m, d) == [t |-> "dt", y |-> y, m |-> m, d |-> d]
\* a pydantic DateRange object
DateRange(f, u) == [t |-> "obj", from_date |-> f, to_date |-> u]

\* Python's truth value of x, as "if x:" and "not x" compute it: None, "",
\* [], 0 and False are false; a datetime and a pydantic model are always true.
Truthy(x) ==
    CASE x.t = "none" -> FALSE
      [] x.t = "str" -> Len(x.v) > 0
      [] x.t = "list" -> Len(x.v) > 0
      [] x.t = "int" -> x.v # 0
      [] x.t = "bool" -> x.v
      [] OTHER -> TRUE

\* dict assignment d[k] = v
Put(d, k, v) == [x \in DOMAIN d \cup {k} |-> IF x = k THEN v ELSE d[x]]
EmptyDict == [x \in {} |-> None]

(***************************************************************************)
(* Characters and strings.                                                 *)
(***************************************************************************)
Digits == <<"0", "1", "2", "3", "4", "5", "6", "7", "8", "9">>
IsDigit(c) == \E i \in 1..10 : Digits[i] = c
DigitVal(c) == (CHOOSE i \in 1..10 : Digits[i] = c) - 1
Whitespace == {" "}

RECURSIVE LStrip(_)
LStrip(s) == IF s # <<>> /\ Head(s) \in Whitespace THEN LStrip(Tail(s)) ELSE s
RECURSIVE RStrip(_)
RStrip(s) ==
    IF s # <<>> /\ s[Len(s)] \in Whitespace
    THEN RStrip(SubSeq(s, 1, Len(s) - 1)) ELSE s
\* str.strip()
Strip(s) == RStrip(LStrip(s))

(***************************************************************************)
(* Dates: datetime.strftime("%d/%m/%y") and datetime.strptime(s, same).    *)
(***************************************************************************)
Fmt2(n) == <<Digits[(n \div 10) + 1], Digits[(n % 10) + 1]>>
strftime(dt) == Fmt2(dt.d) \o <<"/">> \o Fmt2(dt.m) \o <<"/">> \o Fmt2(dt.y % 100)

IsLeap(y) == (y % 4 = 0 /\ y % 100 # 0) \/ y % 400 = 0
DaysInMonth(y, m) ==
    IF m = 2 THEN (IF IsLeap(y) THEN 29 ELSE 28)
    ELSE IF m \in {4, 6, 9, 11} THEN 30 ELSE 31

\* the positions of "/" in s
Slashes(s) == {i \in 1..Len(s) : s[i] = "/"}
\* a number of one or two digits, as %d and %m read it; -1 when s is none
Num12(s) ==
    IF Len(s) = 1 /\ IsDigit(s[1]) THEN DigitVal(s[1])
    ELSE IF Len(s) = 2 /\ IsDigit(s[1]) /\ IsDigit(s[2])
         THEN 10 * DigitVal(s[1]) + DigitVal(s[2])
         ELSE -1
\* strptime: the datetime, or the marker of the ValueError it raises
ValueError(s) == [t |-> "ValueError", v |-> s]
strptime(s) ==
    LET sl == Slashes(s) IN
    IF Cardinality(sl) # 2 THEN ValueError(s)
    ELSE
      LET i == CHOOSE a \in sl : \A b \in sl : a <= b
          j == CHOOSE a \in sl : \A b \in sl : a >= b
          d == Num12(SubSeq(s, 1, i - 1))
          m == Num12(SubSeq(s, i + 1, j - 1))
          yy == SubSeq(s, j + 1, Len(s))
          y2 == IF Len(yy) = 2 THEN Num12(yy) ELSE -1
          \* %y: 69..99 are 1969..1999, 00..68 are 2000..2068
          y == IF y2 >= 69 THEN 1900 + y2 ELSE 2000 + y2
      IN IF d < 1 \/ m < 1 \/ m > 12 \/ y2 < 0 THEN ValueError(s)
         ELSE IF d > DaysInMonth(y, m) THEN ValueError(s)
         ELSE Dt(y, m, d)

\* datetime - timedelta(days=n): back over whole months, then within one
LastDayOfPrevMonth(dt) ==
    IF dt.m > 1 THEN Dt(dt.y, dt.m - 1, DaysInMonth(dt.y, dt.m - 1))
    ELSE Dt(dt.y - 1, 12, 31)
NextDay(dt) ==
    IF dt.d < DaysInMonth(dt.y, dt.m) THEN Dt(dt.y, dt.m, dt.d + 1)
    ELSE IF dt.m < 12 THEN Dt(dt.y, dt.m + 1, 1)
    ELSE Dt(dt.y + 1, 1, 1)
RECURSIVE MinusDays(_, _)
MinusDays(dt, n) ==
    IF n < 0 THEN MinusDays(NextDay(dt), n + 1)
    ELSE IF n < dt.d THEN Dt(dt.y, dt.m, dt.d - n)
    ELSE MinusDays(LastDayOfPrevMonth(dt), n - dt.d)

(***************************************************************************)
(* IsraeliLandAPI.search_tenders: the keyword arguments and the payload.   *)
(***************************************************************************)
\* the keyword arguments at their defaults
DefaultCriteria ==
    [tender_number |-> None, tender_types |-> None, settlement |-> None,
     kod_yeshuv |-> None, neighborhood |-> None, purpose |-> None,
     region |-> None, submission_date_from |-> None,
     submission_date_to |-> None, publication_date_from |-> None,
     publication_date_to |-> None, committee_date_from |-> None,
     committee_date_to |-> None, tender_purposes |-> None, regions |-> None,
     tender_statuses |-> None, priority_populations |-> None,
     active_only |-> PyBool(FALSE), quick_search |-> PyBool(FALSE),
     has_results |-> None, sort_by |-> None, sort_order |-> None]
DefaultPageSize == 100
DefaultPageNumber == 1

\* "if c[field]: payload[key] = c[field]"
PutIfTruthy(p, key, x) == IF Truthy(x) THEN Put(p, key, x) ELSE p

\* lines 126-129 and 137-138: the basic filters
BasicFilters(p, c) ==
    LET p1 == PutIfTruthy(p, "MisMichraz", c.tender_number)
        p2 == PutIfTruthy(p1, "SugMichraz", c.tender_types)
    IN PutIfTruthy(p2, "Shchuna", c.neighborhood)

\* SettlementFilter with "if settlement:" in place of "elif settlement:"
SettlementFilterIf(p, c) ==
    LET p1 == IF Truthy(c.kod_yeshuv) THEN Put(p, "KodYeshuv", c.kod_yeshuv) ELSE p
    IN IF Truthy(c.settlement) THEN Put(p1, "Yishuv", c.settlement) ELSE p1

\* lines 131-136: the settlement code, else the settlement name
SettlementFilter(p, c) ==
    IF Truthy(c.kod_yeshuv) THEN Put(p, "KodYeshuv", c.kod_yeshuv)
    ELSE IF Truthy(c.settlement) THEN Put(p, "Yishuv", c.settlement)
    ELSE p

\* lines 141-148: the code-list filters
EnhancedFilters(p, c) ==
    LET p1 == PutIfTruthy(p, "YeudMichraz", c.tender_purposes)
        p2 == PutIfTruthy(p1, "Merchav", c.regions)
        p3 == PutIfTruthy(p2, "StatusMichraz", c.tender_statuses)
    IN PutIfTruthy(p3, "PriorityPopulations", c.priority_populations)

\* DateFilter without the test of line 151 (160, 167): the sub-object is
\* built and emitted whether or not a bound was given
DateFilterUnguarded(p, key, from, to) ==
    LET d0 == EmptyDict
        d1 == IF Truthy(from) THEN Put(d0, "from", PyStr(strftime(from))) ELSE d0
        d2 == IF Truthy(to) THEN Put(d1, "to", PyStr(strftime(to))) ELSE d1
    IN Put(p, key, [t |-> "dict", v |-> d2])

\* lines 151-172: one date range as a sub-object with "from" and "to"
DateFilter(p, key, from, to) ==
    IF Truthy(from) \/ Truthy(to)
    THEN LET d0 == EmptyDict
             d1 == IF Truthy(from) THEN Put(d0, "from", PyStr(strftime(from))) ELSE d0
             d2 == IF Truthy(to) THEN Put(d1, "to", PyStr(strftime(to))) ELSE d1
         IN Put(p, key, [t |-> "dict", v |-> d2])
    ELSE p

\* LegacyFilters without "and not tender_purposes" and "and not regions"
LegacyFiltersUnguarded(p, c) ==
    LET p1 == IF Truthy(c.purpose) THEN Put(p, "purpose", c.purpose) ELSE p
    IN IF Truthy(c.region) THEN Put(p1, "region", c.region) ELSE p1

\* lines 175-178: the legacy free-text fields
LegacyFilters(p, c) ==
    LET p1 == IF Truthy(c.purpose) /\ ~Truthy(c.tender_purposes)
              THEN Put(p, "purpose", c.purpose) ELSE p
    IN IF Truthy(c.region) /\ ~Truthy(c.regions)
       THEN Put(p1, "region", c.region) ELSE p1

\* AdditionalFilters with "if has_results:" in place of
\* "if has_results is not None:"
AdditionalFiltersTruthy(p, c) ==
    LET p1 == PutIfTruthy(p, "hasResults", c.has_results)
        p2 == PutIfTruthy(p1, "sortBy", c.sort_by)
    IN PutIfTruthy(p2, "sortOrder", c.sort_order)

\* lines 181-186: has_results is tested against None, the sort keys for truth
AdditionalFilters(p, c) ==
    LET p1 == IF c.has_results # None THEN Put(p, "hasResults", c.has_results) ELSE p
        p2 == PutIfTruthy(p1, "sortBy", c.sort_by)
    IN PutIfTruthy(p2, "sortOrder", c.sort_order)

\* lines 123-186: the request payload of search_tenders
BuildPayload(c) ==
    LET p0 == Put(Put(EmptyDict, "ActiveQuickSearch", c.quick_search),
                  "ActiveMichraz", c.active_only)
        p1 == BasicFilters(p0, c)
        p2 == SettlementFilter(p1, c)
        p3 == EnhancedFilters(p2, c)
        p4 == DateFilter(p3, "CloseDate", c.submission_date_from, c.submission_date_to)
        p5 == DateFilter(p4, "VaadaDate", c.committee_date_from, c.committee_date_to)
        p6 == DateFilter(p5, "PirsumDate", c.publication_date_from, c.publication_date_to)
        p7 == LegacyFilters(p6, c)
    IN AdditionalFilters(p7, c)

(***************************************************************************)
(* Client-side pagination (lines 199-211).                                 *)
(***************************************************************************)
\* a slice index clamped the way list slicing clamps it
SliceIndex(i, n) ==
    IF i < 0 THEN (IF n + i < 0 THEN 0 ELSE n + i) ELSE (IF i > n THEN n ELSE i)
\* s[a:b]
PySlice(s, a, b) ==
    LET lo == SliceIndex(a, Len(s))
        hi == SliceIndex(b, Len(s))
    IN IF lo >= hi THEN <<>> ELSE SubSeq(s, lo + 1, hi)
\* s[:b]
PyHead(s, b) == PySlice(s, 0, b)

\* Paginate with pages counted from 0
PaginateFromZero(data, page_size, page_number) ==
    LET start_idx == page_number * page_size
        end_idx == start_idx + page_size
    IN PySlice(data, start_idx, end_idx)

\* lines 202-204 (and 208-210): one page of the result list
Paginate(data, page_size, page_number) ==
    LET start_idx == (page_number - 1) * page_size
        end_idx == start_idx + page_size
    IN PySlice(data, start_idx, end_idx)

\* PaginateResponse building a new envelope around the page
PaginateResponseRebuilt(data, page_size, page_number) ==
    IF data.t = "list" THEN PyList(Paginate(data.v, page_size, page_number))
    ELSE IF "results" \in DOMAIN data.v
         THEN [t |-> "dict",
               v |-> Put(EmptyDict, "results",
                         PyList(Paginate(data.v["results"].v, page_size, page_number)))]
         ELSE data

\* lines 200-211: a bare list is sliced; an envelope has its "results" sliced
PaginateResponse(data, page_size, page_number) ==
    IF data.t = "list" THEN PyList(Paginate(data.v, page_size, page_number))
    ELSE IF "results" \in DOMAIN data.v
         THEN [data EXCEPT !.v = Put(data.v, "results",
                  PyList(Paginate(data.v["results"].v, page_size, page_number)))]
         ELSE data

(***************************************************************************)
(* The settlement catalog.  KOD_YESHUV_SETTLEMENTS is built from the items *)
(* of a dict keyed by settlement code, so codes are unique and names may   *)
(* repeat.  The entries below stand for that table: a name held by two     *)
(* codes, a name that is a prefix of another, a name with an inner blank   *)
(* and a name with a cased letter; and more names than a partial match     *)
(* returns, each of them with the same letter in it once lower-cased.      *)
(***************************************************************************)
Settlement(kod, name) == [kod_yeshuv |-> kod, name_hebrew |-> name]
KOD_YESHUV_SETTLEMENTS ==
    << Settlement(5, <<"a">>), Settlement(7, <<"a", "a">>),
       Settlement(9, <<"a">>), Settlement(3, <<"a", " ", "a">>),
       Settlement(11, <<"a", "b">>), Settlement(13, <<"b", "a">>),
       Settlement(15, <<"a", "a", "b">>), Settlement(17, <<"a", "b", "a">>),
       Settlement(19, <<"b", "a", "a">>), Settlement(21, <<"a", "b", "b">>),
       Settlement(23, <<"b", "a", "b">>), Settlement(25, <<"A", "b">>) >>

(***************************************************************************)
(* The search_tenders tool (tender_tools.py).                              *)
(***************************************************************************)
DefaultToolArgs ==
    [tender_number |-> None, tender_types |-> None, settlement |-> None,
     kod_yeshuv |-> None, neighborhood |-> None, tender_purposes |-> None,
     regions |-> None, tender_statuses |-> None, submission_deadline |-> None,
     committee_date |-> None, publication_date |-> None,
     priority_populations |-> None, active_only |-> PyBool(FALSE),
     quick_search |-> PyBool(FALSE), max_results |-> PyInt(100),
     purpose |-> None, region |-> None, days_back |-> None]

\* ParseBound leaving out a bound that does not parse
ParseBoundLenient(range, bound) ==
    IF Truthy(range) /\ Truthy(range[bound])
       /\ strptime(range[bound].v).t # "ValueError"
    THEN strptime(range[bound].v) ELSE None

\* lines 36-54, 76-84: one bound of a DateRange: parsed when the range and
\* the bound are both true, else left None
ParseBound(range, bound) ==
    IF Truthy(range) /\ Truthy(range[bound]) THEN strptime(range[bound].v) ELSE None

\* ResolveSettlement taking the first entry whose name begins the name given
\* when no entry equals it
ResolveSettlementByPrefix(args) ==
    IF Truthy(args.settlement) /\ ~Truthy(args.kod_yeshuv)
    THEN LET name == Strip(args.settlement.v)
             hits == {i \in 1..Len(KOD_YESHUV_SETTLEMENTS) :
                        LET entry == KOD_YESHUV_SETTLEMENTS[i].name_hebrew
                        IN Len(entry) <= Len(name) /\ SubSeq(name, 1, Len(entry)) = entry}
         IN IF hits = {} THEN args.kod_yeshuv
            ELSE PyInt(KOD_YESHUV_SETTLEMENTS[CHOOSE i \in hits : \A j \in hits : i <= j].kod_yeshuv)
    ELSE args.kod_yeshuv

\* ResolveSettlement comparing the name as given, without strip()
ResolveSettlementUnstripped(args) ==
    IF Truthy(args.settlement) /\ ~Truthy(args.kod_yeshuv)
    THEN LET hits == {i \in 1..Len(KOD_YESHUV_SETTLEMENTS) :
                        KOD_YESHUV_SETTLEMENTS[i].name_hebrew = args.settlement.v}
         IN IF hits = {} THEN args.kod_yeshuv
            ELSE PyInt(KOD_YESHUV_SETTLEMENTS[CHOOSE i \in hits : \A j \in hits : i <= j].kod_yeshuv)
    ELSE args.kod_yeshuv

\* lines 65-71: the code given, else the code of the first catalog entry
\* whose name equals the stripped settlement name
ResolveSettlement(args) ==
    IF Truthy(args.settlement) /\ ~Truthy(args.kod_yeshuv)
    THEN LET hits == {i \in 1..Len(KOD_YESHUV_SETTLEMENTS) :
                        KOD_YESHUV_SETTLEMENTS[i].name_hebrew = Strip(args.settlement.v)}
         IN IF hits = {} THEN args.kod_yeshuv
            ELSE PyInt(KOD_YESHUV_SETTLEMENTS[CHOOSE i \in hits : \A j \in hits : i <= j].kod_yeshuv)
    ELSE args.kod_yeshuv

\* SubmissionFrom with the legacy days_back taken first when it is given
SubmissionFromLegacyFirst(args, today) ==
    IF Truthy(args.days_back) THEN MinusDays(today, args.days_back.v)
    ELSE ParseBound(args.submission_deadline, "from_date")

\* line 57-58: days_back stands in for a missing submission lower bound
SubmissionFrom(args, today) ==
    LET parsed == ParseBound(args.submission_deadline, "from_date")
    IN IF Truthy(args.days_back) /\ ~Truthy(parsed)
       THEN MinusDays(today, args.days_back.v) ELSE parsed

Min(a, b) == IF a <= b THEN a ELSE b
MaxPageSizeOfTool == 1000

\* lines 29-58, 73-84, in the order the tool parses them: the first
\* ValueError strptime raises, or None
ToolParseError(args) ==
    LET parsed == << ParseBound(args.submission_deadline, "from_date"),
                     ParseBound(args.submission_deadline, "to_date"),
                     ParseBound(args.publication_date, "from_date"),
                     ParseBound(args.publication_date, "to_date"),
                     ParseBound(args.committee_date, "from_date"),
                     ParseBound(args.committee_date, "to_date") >>
        bad == {i \in 1..6 : parsed[i].t = "ValueError"}
    IN IF bad = {} THEN None ELSE parsed[CHOOSE i \in bad : \A j \in bad : i <= j]

\* lines 87-110: the keyword arguments the tool passes to the client
ToolCriteria(args, today) ==
    LET final_kod_yeshuv == ResolveSettlement(args)
    IN [DefaultCriteria EXCEPT
          !.tender_number = args.tender_number,
          !.tender_types = args.tender_types,
          !.settlement = IF ~Truthy(final_kod_yeshuv) THEN args.settlement ELSE None,
          !.kod_yeshuv = final_kod_yeshuv,
          !.neighborhood = args.neighborhood,
          !.purpose = args.purpose,
          !.region = args.region,
          !.submission_date_from = SubmissionFrom(args, today),
          !.submission_date_to = ParseBound(args.submission_deadline, "to_date"),
          !.publication_date_from = ParseBound(args.publication_date, "from_date"),
          !.publication_date_to = ParseBound(args.publication_date, "to_date"),
          !.committee_date_from = ParseBound(args.committee_date, "from_date"),
          !.committee_date_to = ParseBound(args.committee_date, "to_date"),
          !.tender_purposes = args.tender_purposes,
          !.regions = args.regions,
          !.tender_statuses = args.tender_statuses,
          !.priority_populations = args.priority_populations,
          !.active_only = args.active_only,
          !.quick_search = args.quick_search]

\* ToolPageSize asking for max_results itself, with no cap
ToolPageSizeUncapped(args) == args.max_results.v

\* line 109: page_size=min(args.max_results, 1000)
ToolPageSize(args) == Min(args.max_results.v, MaxPageSizeOfTool)

\* args.model_dump(exclude_unset=True); the fields set are taken to be the
\* fields given a value other than the default
ModelDump(args) ==
    [f \in {g \in DOMAIN args : args[g] # DefaultToolArgs[g]} |-> args[f]]

\* str(e): the message of an exception, without its type
StrOf(e) == [f \in DOMAIN e \ {"t"} |-> e[f]]

\* lines 150-155: the envelope of a failure
ToolFailure(args, error) ==
    [success |-> FALSE, error |-> StrOf(error), search_parameters |-> ModelDump(args)]

\* lines 112-148: the envelope built from what the client returned
ToolSuccess(args, results) ==
    IF results.t = "dict" /\ "results" \notin DOMAIN results.v
    THEN \* results.get("results", results) is the dict itself: slicing it raises
         ToolFailure(args, [t |-> "TypeError", v |-> "slice"])
    ELSE
      LET all == IF results.t = "list" THEN results.v ELSE results.v["results"].v
          tender_list == PyHead(all, args.max_results.v)
          final_kod_yeshuv == ResolveSettlement(args)
          converting == Truthy(args.settlement) /\ ~Truthy(args.kod_yeshuv)
      IN [success |-> TRUE,
          count |-> Len(tender_list),
          tenders |-> tender_list,
          search_summary |->
            [parameters_used |-> ModelDump(args),
             new_features |->
               [enhanced_date_ranges |->
                    Truthy(args.submission_deadline) \/ Truthy(args.publication_date),
                priority_populations |-> Truthy(args.priority_populations),
                multiple_statuses |-> Truthy(args.tender_statuses),
                multiple_purposes |-> Truthy(args.tender_purposes),
                multiple_regions |-> Truthy(args.regions)],
             settlement_conversion |->
               [settlement_name_provided |-> Truthy(args.settlement),
                kod_yeshuv_resolved |-> IF converting THEN final_kod_yeshuv ELSE None,
                conversion_successful |-> converting /\ Truthy(final_kod_yeshuv)]]]

\* an exception object, as raised by the client or by the tool's own code
Raised(x) == x.t \in {"Exception", "TypeError", "ValueError"}

\* len() of a list or of a dict
PyLen(x) == IF x.t = "list" THEN Len(x.v) ELSE Cardinality(DOMAIN x.v)

\* TenderList without the look-up of "results": what the client returned is
\* taken as the list
TenderListBare(results) == results

\* lines 181-184, 207-210, 244-247: the list itself, else
\* results.get("results", results)
TenderList(results) ==
    IF results.t = "list" THEN results
    ELSE IF "results" \in DOMAIN results.v THEN results.v["results"] ELSE results

\* DetailsEnvelope with no handler: what the client raised is wrapped like a
\* value
DetailsEnvelopeUnguarded(key, args, results) ==
    Put([success |-> TRUE, tender_id |-> args.michraz_id], key, results)

\* DetailsEnvelope reading a body with identifier 0 or null as a failure
DetailsEnvelopeNotFound(key, args, results) ==
    IF Raised(results)
    THEN [success |-> FALSE, error |-> StrOf(results), tender_id |-> args.michraz_id]
    ELSE IF results.t = "dict" /\ "MichrazID" \in DOMAIN results.v
            /\ results.v["MichrazID"] \in {None, PyInt(0)}
    THEN [success |-> FALSE, error |-> [v |-> "not found"],
          tender_id |-> args.michraz_id]
    ELSE Put([success |-> TRUE, tender_id |-> args.michraz_id], key, results)

\* lines 164-169 and 265-272: get_tender_details (key "details") and
\* get_tender_map_details (key "map_details")
DetailsEnvelope(key, args, results) ==
    IF Raised(results)
    THEN [success |-> FALSE, error |-> StrOf(results), tender_id |-> args.michraz_id]
    ELSE Put([success |-> TRUE, tender_id |-> args.michraz_id], key, results)

\* lines 179-193: get_active_tenders; slicing a dict that has no "results"
\* raises inside the try
ActiveTendersEnvelope(args, results) ==
    IF Raised(results) THEN [success |-> FALSE, error |-> StrOf(results)]
    ELSE IF TenderList(results).t = "dict"
    THEN [success |-> FALSE, error |-> StrOf([t |-> "TypeError", v |-> "slice"])]
    ELSE LET tender_list == PyHead(TenderList(results).v, args.max_results)
         IN [success |-> TRUE, count |-> Len(tender_list),
             active_tenders |-> tender_list]

\* lines 203-230: search_by_type
TypeSearchEnvelope(args, results) ==
    LET type_search == [tender_types |-> args.tender_types, purpose |-> args.purpose]
    IN IF Raised(results)
       THEN [success |-> FALSE, error |-> StrOf(results), type_search |-> type_search]
       ELSE [success |-> TRUE, count |-> PyLen(TenderList(results)),
             tenders |-> TenderList(results), type_search |-> type_search]

\* lines 240-255: get_recent_results
RecentResultsEnvelope(args, results) ==
    IF Raised(results)
    THEN [success |-> FALSE, error |-> StrOf(results), days_back |-> args.days]
    ELSE [success |-> TRUE, count |-> PyLen(TenderList(results)),
          days_back |-> args.days, recent_results |-> TenderList(results)]

\* what the tool a (its name and arguments) returns once the client call
\* returned or raised results
ToolEnvelope(a, results) ==
    CASE a.tool = "search_tenders" ->
           IF Raised(results) THEN ToolFailure(a.args, results)
           ELSE ToolSuccess(a.args, results)
      [] a.tool = "get_tender_details" -> DetailsEnvelope("details", a.args, results)
      [] a.tool = "get_tender_map_details" ->
           DetailsEnvelope("map_details", a.args, results)
      [] a.tool = "get_active_tenders" -> ActiveTendersEnvelope(a.args, results)
      [] a.tool = "search_by_type" -> TypeSearchEnvelope(a.args, results)
      [] OTHER -> RecentResultsEnvelope(a.args, results)

(***************************************************************************)
(* The get_kod_yeshuv tool (settlement_tools.py).                          *)
(***************************************************************************)
\* str.lower(): the one cased letter of the alphabet is "A"
Lower(s) == [i \in 1..Len(s) |-> IF s[i] = "A" THEN "a" ELSE s[i]]

\* Contains testing only whether hay begins with needle
ContainsPrefix(hay, needle) ==
    Len(needle) <= Len(hay) /\ SubSeq(hay, 1, Len(needle)) = needle

\* "needle in hay" for strings; the empty string is in every string
Contains(hay, needle) ==
    \E i \in 0..(Len(hay) - Len(needle)) : SubSeq(hay, i + 1, i + Len(needle)) = needle

PartialLimit == 10

\* lines 37-47 with the test of line 40 dropped: every entry is a match
PartialMatchesAll(settlement_name) ==
    [i \in 1..Len(KOD_YESHUV_SETTLEMENTS) |->
       [settlement_name |-> KOD_YESHUV_SETTLEMENTS[i].name_hebrew,
        kod_yeshuv |-> KOD_YESHUV_SETTLEMENTS[i].kod_yeshuv,
        similarity |-> "partial"]]

\* lines 35-47: the entries whose lower-cased name contains the lower-cased
\* query or is contained in it, in catalog order
PartialMatches(settlement_name) ==
    LET settlement_lower == Lower(settlement_name)
        Match(settlement) ==
            \/ Contains(Lower(settlement.name_hebrew), settlement_lower)
            \/ Contains(settlement_lower, Lower(settlement.name_hebrew))
        hits == SelectSeq(KOD_YESHUV_SETTLEMENTS, Match)
    IN [i \in 1..Len(hits) |->
          [settlement_name |-> hits[i].name_hebrew,
           kod_yeshuv |-> hits[i].kod_yeshuv,
           similarity |-> "partial"]]

\* get_kod_yeshuv comparing the query as given, without strip()
get_kod_yeshuv_unstripped(args) ==
    LET settlement_name == args.settlement_name
        exact == {i \in 1..Len(KOD_YESHUV_SETTLEMENTS) :
                    KOD_YESHUV_SETTLEMENTS[i].name_hebrew = settlement_name}
        partial_matches == PartialMatches(settlement_name)
    IN IF exact # {}
       THEN [success |-> TRUE, settlement_name |-> settlement_name,
             kod_yeshuv |-> KOD_YESHUV_SETTLEMENTS[
                              CHOOSE i \in exact : \A j \in exact : i <= j].kod_yeshuv,
             match_type |-> "exact"]
       ELSE IF Len(partial_matches) > 0
       THEN [success |-> TRUE, searched_name |-> settlement_name,
             exact_match |-> FALSE,
             partial_matches |-> PyHead(partial_matches, PartialLimit),
             match_type |-> "partial"]
       ELSE [success |-> FALSE,
             error |-> [t |-> "str", v |-> "No settlement found matching",
                        name |-> settlement_name],
             searched_name |-> settlement_name,
             suggestion |-> "Try using the exact Hebrew name or check the settlement name spelling"]

\* lines 21-64: the exact match first (the loop returns at the first equal
\* name), then the partial matches, then no match.  Nothing in the body
\* raises on a string argument, so the handler of lines 66-71 is not entered.
get_kod_yeshuv(args) ==
    LET settlement_name == Strip(args.settlement_name)
        exact == {i \in 1..Len(KOD_YESHUV_SETTLEMENTS) :
                    KOD_YESHUV_SETTLEMENTS[i].name_hebrew = settlement_name}
        partial_matches == PartialMatches(settlement_name)
    IN IF exact # {}
       THEN [success |-> TRUE, settlement_name |-> settlement_name,
             kod_yeshuv |-> KOD_YESHUV_SETTLEMENTS[
                              CHOOSE i \in exact : \A j \in exact : i <= j].kod_yeshuv,
             match_type |-> "exact"]
       ELSE IF Len(partial_matches) > 0
       THEN [success |-> TRUE, searched_name |-> settlement_name,
             exact_match |-> FALSE,
             partial_matches |-> PyHead(partial_matches, PartialLimit),
             match_type |-> "partial"]
       ELSE [success |-> FALSE,
             error |-> [t |-> "str", v |-> "No settlement found matching",
                        name |-> settlement_name],
             searched_name |-> settlement_name,
             suggestion |-> "Try using the exact Hebrew name or check the settlement name spelling"]

(***************************************************************************)
(* The state: one wall clock, the client instances with their rate-limit   *)
(* timestamp, and the threads that call them.                              *)
(***************************************************************************)
VARIABLES
    now,                \* time.time(), in ticks
    today,              \* the date datetime.now() falls on
    rate_limit_delay,   \* per client: self.rate_limit_delay
    last_request_time,  \* per client: self._last_request_time
    inst,               \* per thread: the client instance it calls
    pc,                 \* per thread: where it is in its call
    req,                \* per thread: the client call being made
    targs,              \* per thread: the arguments of the tool call, if any
    loc,                \* per thread: the locals of _rate_limit
    payload,            \* per thread: the payload sent with the request
    ret,                \* per thread: what the client call returned or raised
    env,                \* per thread: the envelope the tool returned
    resp,               \* per thread: how the upstream answered the request
    calls_left,         \* per thread: calls it may still start
    disp                \* per client: the times of its dispatches

vars == <<now, today, rate_limit_delay, last_request_time, inst, pc, req,
          targs, loc, payload, resp, ret, env, calls_left, disp>>

Threads == {"t1", "t2"}
Clients == {"c1", "c2"}

\* time.time() counts from 1970: the clock starts beyond every delay
Epoch == MaxDelay + 1

NoReq == [op |-> "none"]
NoTool == [tool |-> "none"]
\* the locals of _rate_limit, and the retries the transport has made of the
\* request in flight with the status that caused the last of them
NoLocals ==
    [current_time |-> 0, time_since_last |-> 0, wake |-> 0, request_time |-> 0,
     retries |-> 0, status |-> -1]
Pending == [t |-> "pending"]
\* What is recorded of a client's dispatches: n have begun (_rate_limit has
\* returned), the last at start and the one before at prev; done requests
\* have returned or failed, the last at end; since_end is the time from that
\* end to the start of the dispatch after it; the client's first call was
\* invoked at first
NoDispatch ==
    [n |-> 0, start |-> -1, prev |-> -1, end |-> -1, since_end |-> -1,
     first |-> -1, done |-> 0]

SearchReq(c, page_size, page_number) ==
    [op |-> "search_tenders", criteria |-> c, page_size |-> page_size,
     page_number |-> page_number]
DetailsReq(op, michraz_id) == [op |-> op, michraz_id |-> michraz_id]

\* every thread constructs a client of its own
ClientOf(t) == IF t = "t1" THEN "c1" ELSE "c2"

\* __init__ (lines 26-34) of every client, and threads that have called
\* nothing: calls[t] is the number of calls thread t will make, and delays
\* the rate_limit_delay its client may be constructed with
InitWith(calls, delays, todays) ==
    /\ now = Epoch
    /\ today \in todays
    /\ rate_limit_delay \in
         {f \in [Clients -> delays \cup {0}] :
            \A c \in Clients :
               f[c] \in IF \E t \in Threads : ClientOf(t) = c /\ calls[t] > 0
                        THEN delays ELSE {0}}
    /\ last_request_time = [c \in Clients |-> 0]
    /\ inst = [t \in Threads |-> ClientOf(t)]
    /\ pc = [t \in Threads |-> "idle"]
    /\ req = [t \in Threads |-> NoReq]
    /\ targs = [t \in Threads |-> NoTool]
    /\ loc = [t \in Threads |-> NoLocals]
    /\ payload = [t \in Threads |-> None]
    /\ ret = [t \in Threads |-> Pending]
    /\ env = [t \in Threads |-> None]
    /\ calls_left = calls
    /\ resp = [t \in Threads |-> Pending]
    /\ disp = [c \in Clients |-> NoDispatch]

\* the clock advances
Tick ==
    /\ now < Epoch + MaxElapsed
    /\ now' = now + 1
    /\ UNCHANGED <<resp, today, rate_limit_delay, last_request_time, inst, pc, req,
                   targs, loc, payload, ret, env, calls_left, disp>>

\* a thread may start a call
CanEnter(t) == pc[t] \in {"idle", "done"} /\ calls_left[t] > 0

\* a thread enters a client method (r) directly or through a tool (a)
Enter(t, r, a) ==
    /\ pc[t] \in {"idle", "done"}
    /\ calls_left[t] > 0
    /\ calls_left' = [calls_left EXCEPT ![t] = @ - 1]
    /\ pc' = [pc EXCEPT ![t] = "rl_time"]
    /\ req' = [req EXCEPT ![t] = r]
    /\ targs' = [targs EXCEPT ![t] = a]
    /\ loc' = [loc EXCEPT ![t] = NoLocals]
    /\ payload' = [payload EXCEPT ![t] = None]
    /\ ret' = [ret EXCEPT ![t] = Pending]
    /\ env' = [env EXCEPT ![t] = None]
    /\ resp' = [resp EXCEPT ![t] = Pending]
    /\ disp' = [disp EXCEPT ![inst[t]].first = IF @ = -1 THEN now ELSE @]
    /\ UNCHANGED <<now, today, rate_limit_delay, last_request_time, inst>>

\* IsraeliLandAPI.search_tenders is called
search_tenders(t, c, page_size, page_number) ==
    /\ CanEnter(t)
    /\ Enter(t, SearchReq(c, page_size, page_number), NoTool)

\* IsraeliLandAPI.get_tender_details is called
get_tender_details(t, michraz_id) ==
    /\ CanEnter(t)
    /\ Enter(t, DetailsReq("get_tender_details", michraz_id), NoTool)

\* IsraeliLandAPI.get_tender_map_details is called
get_tender_map_details(t, michraz_id) ==
    /\ CanEnter(t)
    /\ Enter(t, DetailsReq("get_tender_map_details", michraz_id), NoTool)

\* the search_tenders tool is called: lines 28-110.  A malformed date makes
\* strptime raise before the client is called, and the tool returns at once
tool_search_tenders(t, args) ==
    IF ToolParseError(args) = None
    THEN Enter(t, SearchReq(ToolCriteria(args, today), ToolPageSize(args),
                            DefaultPageNumber),
               [tool |-> "search_tenders", args |-> args])
    ELSE /\ pc[t] \in {"idle", "done"}
         /\ calls_left[t] > 0
         /\ calls_left' = [calls_left EXCEPT ![t] = @ - 1]
         /\ pc' = [pc EXCEPT ![t] = "done"]
         /\ req' = [req EXCEPT ![t] = NoReq]
         /\ targs' = [targs EXCEPT ![t] = [tool |-> "search_tenders", args |-> args]]
         /\ loc' = [loc EXCEPT ![t] = NoLocals]
         /\ payload' = [payload EXCEPT ![t] = None]
         /\ ret' = [ret EXCEPT ![t] = Pending]
         /\ env' = [env EXCEPT ![t] = ToolFailure(args, ToolParseError(args))]
         /\ resp' = [resp EXCEPT ![t] = Pending]
         /\ UNCHANGED <<now, today, rate_limit_delay, last_request_time, inst, disp>>

ClientHelperPageSize == 10000

\* the get_tender_details tool is called: line 165
tool_get_tender_details(t, args) ==
    /\ CanEnter(t)
    /\ Enter(t, DetailsReq("get_tender_details", args.michraz_id),
             [tool |-> "get_tender_details", args |-> args])

\* the get_tender_map_details tool is called: line 266
tool_get_tender_map_details(t, args) ==
    /\ CanEnter(t)
    /\ Enter(t, DetailsReq("get_tender_map_details", args.michraz_id),
             [tool |-> "get_tender_map_details", args |-> args])

\* the get_active_tenders tool is called: line 180, and lines 275-282 of the
\* client
tool_get_active_tenders(t, args) ==
    /\ CanEnter(t)
    /\ Enter(t, SearchReq([DefaultCriteria EXCEPT !.active_only = PyBool(TRUE)],
                          ClientHelperPageSize, DefaultPageNumber),
             [tool |-> "get_active_tenders", args |-> args])

\* the search_by_type tool is called: lines 204-206, and lines 326-341 of the
\* client
tool_search_by_type(t, args) ==
    /\ CanEnter(t)
    /\ Enter(t, SearchReq([DefaultCriteria EXCEPT !.tender_types = args.tender_types,
                                                  !.purpose = args.purpose],
                          ClientHelperPageSize, DefaultPageNumber),
             [tool |-> "search_by_type", args |-> args])

\* the get_recent_results tool is called: line 241, and lines 284-297 of the
\* client
tool_get_recent_results(t, args) ==
    /\ CanEnter(t)
    /\ Enter(t, SearchReq([DefaultCriteria EXCEPT
                             !.has_results = PyBool(TRUE),
                             !.submission_date_from = MinusDays(today, args.days)],
                          ClientHelperPageSize, DefaultPageNumber),
             [tool |-> "get_recent_results", args |-> args])

\* the get_kod_yeshuv tool is called and returns: it makes no client call
tool_get_kod_yeshuv(t, args) ==
    /\ CanEnter(t)
    /\ calls_left' = [calls_left EXCEPT ![t] = @ - 1]
    /\ pc' = [pc EXCEPT ![t] = "done"]
    /\ req' = [req EXCEPT ![t] = NoReq]
    /\ targs' = [targs EXCEPT ![t] = [tool |-> "get_kod_yeshuv", args |-> args]]
    /\ loc' = [loc EXCEPT ![t] = NoLocals]
    /\ payload' = [payload EXCEPT ![t] = None]
    /\ ret' = [ret EXCEPT ![t] = Pending]
    /\ env' = [env EXCEPT ![t] = get_kod_yeshuv(args)]
    /\ resp' = [resp EXCEPT ![t] = Pending]
    /\ UNCHANGED <<now, today, rate_limit_delay, last_request_time, inst, disp>>

(***************************************************************************)
(* _rate_limit (lines 48-54), one step per clock reading and shared access.*)
(***************************************************************************)
\* line 50: current_time = time.time()
RateLimitTime(t) ==
    /\ pc[t] = "rl_time"
    /\ loc' = [loc EXCEPT ![t].current_time = now]
    /\ pc' = [pc EXCEPT ![t] = "rl_check"]
    /\ UNCHANGED <<resp, now, today, rate_limit_delay, last_request_time, inst, req,
                   targs, payload, ret, env, calls_left, disp>>

\* SleepTime with the time already elapsed in place of the time remaining
SleepElapsed(delay, time_since_last) == time_since_last

\* line 53: how long time.sleep is asked to sleep
SleepTime(delay, time_since_last) == delay - time_since_last

\* lines 51-53: the time since the last request; time.sleep begins when it
\* is less than the delay
RateLimitCheck(t) ==
    /\ pc[t] = "rl_check"
    /\ LET time_since_last == loc[t].current_time - last_request_time[inst[t]]
       IN IF time_since_last < rate_limit_delay[inst[t]]
          THEN /\ loc' = [loc EXCEPT ![t].time_since_last = time_since_last,
                                     ![t].wake = now + SleepTime(rate_limit_delay[inst[t]],
                                                                 time_since_last)]
               /\ pc' = [pc EXCEPT ![t] = "rl_sleep"]
          ELSE /\ loc' = [loc EXCEPT ![t].time_since_last = time_since_last]
               /\ pc' = [pc EXCEPT ![t] = "rl_stamp"]
    /\ UNCHANGED <<resp, now, today, rate_limit_delay, last_request_time, inst, req,
                   targs, payload, ret, env, calls_left, disp>>

\* line 53: time.sleep returns, no sooner than asked
RateLimitWake(t) ==
    /\ pc[t] = "rl_sleep"
    /\ now >= loc[t].wake
    /\ pc' = [pc EXCEPT ![t] = "rl_stamp"]
    /\ UNCHANGED <<resp, now, today, rate_limit_delay, last_request_time, inst, req,
                   targs, loc, payload, ret, env, calls_left, disp>>

\* Stamp with the clock reading of line 50, taken before the sleep
StampBeforeSleep(t) == loc[t].current_time

\* Stamp by arithmetic on the previous timestamp, with no clock reading
StampAdvanced(t) == last_request_time[inst[t]] + rate_limit_delay[inst[t]]

\* line 54: the clock reading the next call will measure from
Stamp(t) == now

\* line 54, right-hand side: time.time() is read.  The read and the store
\* of line 54 are two steps: another thread may run between them.
RateLimitClock(t) ==
    /\ pc[t] = "rl_stamp"
    /\ loc' = [loc EXCEPT ![t].request_time = Stamp(t)]
    /\ pc' = [pc EXCEPT ![t] = "rl_store"]
    /\ UNCHANGED <<resp, now, today, rate_limit_delay, last_request_time, inst, req,
                   targs, payload, ret, env, calls_left, disp>>

\* RateLimitStamp with one timestamp shared by every instance (a class
\* attribute)
RateLimitStampShared(t) ==
    /\ pc[t] = "rl_store"
    /\ last_request_time' = [c \in Clients |-> loc[t].request_time]
    /\ pc' = [pc EXCEPT ![t] = "send"]
    /\ disp' = [disp EXCEPT ![inst[t]] =
                  [@ EXCEPT !.n = @ + 1, !.prev = disp[inst[t]].start,
                            !.start = loc[t].request_time,
                            !.since_end = IF disp[inst[t]].end = -1 THEN -1
                                          ELSE loc[t].request_time - disp[inst[t]].end]]
    /\ UNCHANGED <<resp, now, today, rate_limit_delay, inst, req, targs, loc,
                   payload, ret, env, calls_left>>

\* line 54: self._last_request_time is stored; _rate_limit returns and the
\* dispatch begins, its time being the clock reading just stored
RateLimitStamp(t) ==
    /\ pc[t] = "rl_store"
    /\ last_request_time' = [last_request_time EXCEPT ![inst[t]] = loc[t].request_time]
    /\ pc' = [pc EXCEPT ![t] = "send"]
    /\ disp' = [disp EXCEPT ![inst[t]] =
                  [@ EXCEPT !.n = @ + 1, !.prev = disp[inst[t]].start,
                            !.start = loc[t].request_time,
                            !.since_end = IF disp[inst[t]].end = -1 THEN -1
                                          ELSE loc[t].request_time - disp[inst[t]].end]]
    /\ UNCHANGED <<resp, now, today, rate_limit_delay, inst, req, targs, loc,
                   payload, ret, env, calls_left>>

(***************************************************************************)
(* The request and its answer.                                             *)
(***************************************************************************)
\* Send with the client's rate-limit timestamp written into the payload
SendStamped(t) ==
    /\ pc[t] = "send"
    /\ payload' = [payload EXCEPT ![t] =
                     IF req[t].op = "search_tenders"
                     THEN Put(BuildPayload(req[t].criteria), "timestamp",
                              PyInt(last_request_time[inst[t]]))
                     ELSE [michrazID |-> PyInt(req[t].michraz_id)]]
    /\ pc' = [pc EXCEPT ![t] = "wait"]
    /\ UNCHANGED <<resp, now, today, rate_limit_delay, last_request_time, inst, req,
                   targs, loc, ret, env, calls_left, disp>>

\* lines 123-195 (229-233, 254-258): the payload is built and the request sent
Send(t) ==
    /\ pc[t] = "send"
    /\ payload' = [payload EXCEPT ![t] =
                     IF req[t].op = "search_tenders"
                     THEN BuildPayload(req[t].criteria)
                     ELSE [michrazID |-> PyInt(req[t].michraz_id)]]
    /\ pc' = [pc EXCEPT ![t] = "wait"]
    /\ UNCHANGED <<resp, now, today, rate_limit_delay, last_request_time, inst, req,
                   targs, loc, ret, env, calls_left, disp>>

Ok(data) == [ok |-> TRUE, data |-> data]
Failed(error) == [ok |-> FALSE, error |-> error]

\* lines 213-214, 236-239, 261-264: the exception a failed request becomes
ClientError(r, error) ==
    [t |-> "Exception",
     msg |-> CASE r.op = "search_tenders" -> "Failed to search tenders"
               [] r.op = "get_tender_details" -> "Failed to get tender details for ID"
               [] OTHER -> "Failed to get map details for tender ID",
     id |-> IF r.op = "search_tenders" THEN None ELSE PyInt(r.michraz_id),
     cause |-> error]

\* lines 196-214, 234-239, 259-264: what the client method returns or raises
\* A body of JSON null is neither a list nor a container: line 207
\* ('"results" in data') raises TypeError, which line 213 does not catch.
ClientReturn(r, outcome) ==
    IF ~outcome.ok THEN ClientError(r, outcome.error)
    ELSE IF r.op = "search_tenders"
         THEN IF outcome.data = None THEN [t |-> "TypeError", v |-> "in"]
              ELSE PaginateResponse(outcome.data, r.page_size, r.page_number)
         ELSE outcome.data

\* Respond taking back the rate-limit timestamp when the request failed
RespondResetting(t, outcome) ==
    /\ pc[t] = "wait"
    /\ ret' = [ret EXCEPT ![t] = ClientReturn(req[t], outcome)]
    /\ resp' = [resp EXCEPT ![t] = outcome]
    /\ disp' = [disp EXCEPT ![inst[t]] = [@ EXCEPT !.end = now, !.done = @ + 1]]
    /\ pc' = [pc EXCEPT ![t] = IF targs[t] = NoTool THEN "done" ELSE "tool_wrap"]
    /\ last_request_time' =
          IF outcome.ok THEN last_request_time
          ELSE [last_request_time EXCEPT ![inst[t]] = 0]
    /\ UNCHANGED <<now, today, rate_limit_delay, inst, req, targs, loc, payload,
                   env, calls_left>>

\* the request returns or fails, and with it the client method
Respond(t, outcome) ==
    /\ pc[t] = "wait"
    /\ ret' = [ret EXCEPT ![t] = ClientReturn(req[t], outcome)]
    /\ resp' = [resp EXCEPT ![t] = outcome]
    /\ disp' = [disp EXCEPT ![inst[t]] = [@ EXCEPT !.end = now, !.done = @ + 1]]
    /\ pc' = [pc EXCEPT ![t] = IF targs[t] = NoTool THEN "done" ELSE "tool_wrap"]
    /\ UNCHANGED <<now, today, rate_limit_delay, last_request_time, inst, req,
                   targs, loc, payload, env, calls_left>>

(***************************************************************************)
(* The transport's retries: the session is mounted with                    *)
(* Retry(total=3, backoff_factor=1, status_forcelist=[429, 500, 502, 503,  *)
(* 504]) (lines 38-44).  urllib3 retries a response when its method is one *)
(* of the allowed methods (by default the idempotent ones: not POST), its  *)
(* status is in the forcelist and fewer than 'total' retries were made;    *)
(* when the retries are exhausted requests raises RetryError.  An attempt  *)
(* that could not connect sent nothing, and urllib3 makes it again         *)
(* whatever the method, while retries are left; then requests raises       *)
(* ConnectionError.                                                        *)
(***************************************************************************)
RetryTotal == 3
\* in place of a status: the attempt could not connect to the upstream
NoConnection == 0

\* IsRetry with every method allowed to be retried on a listed status
IsRetryAnyMethod(r, status, retries) ==
    /\ status \in {NoConnection, 429, 500, 502, 503, 504}
    /\ retries < RetryTotal

\* whether the attempt answered with status is made again; search_tenders
\* posts (line 193), the two detail lookups get (lines 229, 254)
IsRetry(r, status, retries) ==
    /\ \/ status = NoConnection
       \/ r.op # "search_tenders" /\ status \in {429, 500, 502, 503, 504}
    /\ retries < RetryTotal

\* an attempt is answered with a status that makes the transport try again
RequestRetried(t, status) ==
    /\ pc[t] = "wait"
    /\ IsRetry(req[t], status, loc[t].retries)
    /\ loc' = [loc EXCEPT ![t].retries = @ + 1, ![t].status = status]
    /\ UNCHANGED <<resp, now, today, rate_limit_delay, last_request_time, inst, pc,
                   req, targs, payload, ret, env, calls_left, disp>>

\* the last attempt is answered: with a body, with retries exhausted
\* (ConnectionError, RetryError), or with an error status raise_for_status
\* raises for (lines 196, 234, 259)
RequestAnswered(t, status) ==
    /\ ~IsRetry(req[t], status, loc[t].retries)
    /\ Respond(t, IF status = 200
                  THEN Ok(IF req[t].op = "search_tenders" THEN PyList(<<1>>)
                          ELSE [t |-> "dict", v |-> [MichrazID |-> PyInt(1)]])
                  ELSE Failed([error |-> IF status = NoConnection
                                         THEN "ConnectionError"
                                         ELSE IF req[t].op # "search_tenders"
                                                 /\ status \in {429, 500, 502, 503, 504}
                                         THEN "RetryError" ELSE "HTTPError",
                               status |-> status]))

\* ToolReturn calling the client once more when the call raised
ToolReturnRetrying(t) ==
    /\ pc[t] = "tool_wrap"
    /\ IF Raised(ret[t])
       THEN /\ pc' = [pc EXCEPT ![t] = "rl_time"]
            /\ ret' = [ret EXCEPT ![t] = Pending]
            /\ UNCHANGED env
       ELSE /\ pc' = [pc EXCEPT ![t] = "done"]
            /\ env' = [env EXCEPT ![t] = ToolEnvelope(targs[t], ret[t])]
            /\ UNCHANGED ret
    /\ UNCHANGED <<now, today, rate_limit_delay, last_request_time, inst, req,
                   targs, loc, payload, resp, calls_left, disp>>

\* tender_tools.py lines 112-155, 164-169, 179-193, 203-230, 240-255,
\* 265-272: the tool wraps what the client returned or raised
ToolReturn(t) ==
    /\ pc[t] = "tool_wrap"
    /\ env' = [env EXCEPT ![t] = ToolEnvelope(targs[t], ret[t])]
    /\ pc' = [pc EXCEPT ![t] = "done"]
    /\ UNCHANGED <<now, today, rate_limit_delay, last_request_time, inst, req,
                   targs, loc, payload, resp, ret, calls_left, disp>>

(***************************************************************************)
(* The inputs the calls are made with.                                     *)
(***************************************************************************)
StringValues == {PyStr(<<>>), PyStr(<<"a">>)}
ListValues == {PyList(<<>>), PyList(<<1>>)}
DateValues == {Dt(2024, 1, 5), Dt(1999, 12, 31)}
StringFields == {"tender_number", "settlement", "neighborhood", "purpose",
                 "region", "sort_by", "sort_order"}
ListFields == {"tender_types", "tender_purposes", "regions", "tender_statuses",
               "priority_populations"}
DateFields == {"submission_date_from", "submission_date_to",
               "publication_date_from", "publication_date_to",
               "committee_date_from", "committee_date_to"}
CodeValues == {PyInt(0), PyInt(7)}

\* the keyword arguments of the client's search_tenders, in order
CriteriaFields ==
    <<"tender_number", "tender_types", "settlement", "kod_yeshuv",
      "neighborhood", "purpose", "region", "submission_date_from",
      "submission_date_to", "publication_date_from", "publication_date_to",
      "committee_date_from", "committee_date_to", "tender_purposes", "regions",
      "tender_statuses", "priority_populations", "active_only", "quick_search",
      "has_results", "sort_by", "sort_order">>

\* the values a keyword argument of the client takes besides its default
CriteriaValues(f) ==
    CASE f \in StringFields -> StringValues
      [] f \in ListFields -> ListValues
      [] f \in DateFields -> DateValues
      [] f = "kod_yeshuv" -> CodeValues
      [] f = "has_results" -> {PyBool(FALSE), PyBool(TRUE)}
      [] OTHER -> {PyBool(TRUE)}

\* settlement names: every string of blanks and letters up to MaxNameLen
NameChars == {" ", "a"}
Names == UNION {[1..n -> NameChars] : n \in 0..MaxNameLen}

\* date strings: padded, unpadded, empty, not in the format, and a day the
\* month does not have
Padded == <<"0", "5", "/", "0", "1", "/", "2", "4">>
Unpadded == <<"5", "/", "1", "/", "2", "4">>
IsoDate == <<"2", "0", "2", "4", "-", "0", "1", "-", "0", "5">>
NoSuchDay == <<"3", "1", "/", "0", "2", "/", "2", "4">>
DateRangeValues ==
    {DateRange(None, None),
     DateRange(PyStr(Padded), None), DateRange(PyStr(<<>>), None),
     DateRange(PyStr(IsoDate), None),
     DateRange(None, PyStr(Unpadded)), DateRange(None, PyStr(NoSuchDay)),
     DateRange(PyStr(Unpadded), PyStr(Padded))}

\* the fields of SearchTendersArgs, in order
ToolFields ==
    <<"tender_number", "tender_types", "settlement", "kod_yeshuv",
      "neighborhood", "tender_purposes", "regions", "tender_statuses",
      "submission_deadline", "committee_date", "publication_date",
      "priority_populations", "active_only", "quick_search", "max_results",
      "purpose", "region", "days_back">>

\* the values an argument of the tool takes besides its default
ToolValues(f) ==
    CASE f = "settlement" -> {PyStr(s) : s \in Names}
      [] f \in StringFields -> {PyStr(<<"a">>)}
      [] f \in ListFields -> {PyList(<<1>>)}
      [] f \in {"submission_deadline", "committee_date", "publication_date"} ->
           DateRangeValues
      [] f = "kod_yeshuv" -> CodeValues
      [] f = "max_results" -> {PyInt(0), PyInt(2), PyInt(-1)}
      [] f = "days_back" -> {PyInt(0), PyInt(1), PyInt(61)}
      [] OTHER -> {PyBool(TRUE)}

FieldsOf(callee) == IF callee = "client" THEN CriteriaFields ELSE ToolFields
ValuesOf(callee, f) == IF callee = "client" THEN CriteriaValues(f) ELSE ToolValues(f)

\* the ways to pass at most k of the callee's arguments from the i-th on:
\* sequences of <<argument number, value>> in the order of the arguments
RECURSIVE ChoicesFrom(_, _, _)
ChoicesFrom(callee, i, k) ==
    IF k = 0 \/ i > Len(FieldsOf(callee)) THEN {<<>>}
    ELSE ChoicesFrom(callee, i + 1, k)
           \cup {<<<<i, x>>>> \o rest :
                    x \in ValuesOf(callee, FieldsOf(callee)[i]),
                    rest \in ChoicesFrom(callee, i + 1, k - 1)}
CriteriaChoices == ChoicesFrom("client", 1, MaxFilters)
ToolChoices == ChoicesFrom("tool", 1, MaxFilters)

\* the arguments of a call: those passed, and the defaults of the others
Passed(defaults, fields, choice) ==
    [f \in DOMAIN defaults |->
       LET js == {j \in DOMAIN choice : fields[choice[j][1]] = f}
       IN IF js = {} THEN defaults[f] ELSE choice[CHOOSE j \in js : TRUE][2]]

\* the day the calls are made: the day after a 29th of February
TodayValues == {Dt(2024, 3, 1)}

\* upstream answers: a bare list of n records, or an envelope around it
Records(n) == [i \in 1..n |-> i]
Envelope(n, extra) ==
    [t |-> "dict",
     v |-> [k \in {"results"} \cup extra |->
              IF k = "results" THEN PyList(Records(n))
              ELSE IF k = "total" THEN PyInt(n) ELSE PyStr(<<"a">>)]]
NoResults(extra) ==
    [t |-> "dict", v |-> [k \in extra |-> IF k = "total" THEN PyInt(0) ELSE PyStr(<<"a">>)]]
Extras == {{}, {"total"}, {"total", "message"}}
Failures == {"HTTPError", "ConnectionError"}

PageOutcomes ==
    {Ok(PyList(Records(n))) : n \in 0..MaxResults}
      \cup {Ok(Envelope(n, x)) : n \in 0..MaxResults, x \in Extras}
      \cup {Ok(NoResults(x)) : x \in Extras}
      \cup {Failed(e) : e \in Failures}
\* the upstream shapes a tool call is answered with
BuildOutcomes ==
    {Ok(PyList(Records(3))), Ok(Envelope(3, {"total"})), Ok(NoResults({"total"})),
     Failed("HTTPError")}
\* a detail object as the upstream returns it
DetailOutcomes ==
    {Ok([t |-> "dict", v |-> [MichrazID |-> PyInt(1)]]), Failed("HTTPError")}

\* thread t1 makes one call and the other thread none
OneCall == [t \in Threads |-> IF t = "t1" THEN 1 ELSE 0]

(***************************************************************************)
(* SpecBuild: one call of search_tenders, through the tool or directly,    *)
(* with every choice of arguments; the client has rate_limit_delay 0.      *)
(***************************************************************************)
InitBuild == InitWith(OneCall, {0}, TodayValues)
NextBuild ==
    \/ /\ CanEnter("t1")
       /\ \E choice \in CriteriaChoices :
            search_tenders("t1", Passed(DefaultCriteria, CriteriaFields, choice),
                           DefaultPageSize, DefaultPageNumber)
    \/ /\ CanEnter("t1")
       /\ \E choice \in ToolChoices :
            tool_search_tenders("t1", Passed(DefaultToolArgs, ToolFields, choice))
    \/ RateLimitTime("t1")
    \/ RateLimitCheck("t1")
    \/ RateLimitClock("t1")
    \/ RateLimitStamp("t1")
    \/ Send("t1")
    \/ \E o \in BuildOutcomes : Respond("t1", o)
    \/ ToolReturn("t1")
SpecBuild == InitBuild /\ [][NextBuild]_vars

(***************************************************************************)
(* SpecPage: one call of search_tenders with every page size and number,   *)
(* answered with every upstream shape.                                     *)
(***************************************************************************)
PageSizes == -1..MaxPageSize
PageNumbers == 0..MaxPageNumber
InitPage == InitWith(OneCall, {0}, TodayValues)
NextPage ==
    \/ \E ps \in PageSizes, pn \in PageNumbers :
         search_tenders("t1", DefaultCriteria, ps, pn)
    \/ RateLimitTime("t1")
    \/ RateLimitCheck("t1")
    \/ RateLimitClock("t1")
    \/ RateLimitStamp("t1")
    \/ Send("t1")
    \/ \E o \in PageOutcomes : Respond("t1", o)
SpecPage == InitPage /\ [][NextPage]_vars

(***************************************************************************)
(* Spec: a thread makes calls one after another on its client while the    *)
(* clock runs.                                                             *)
(***************************************************************************)
Init ==
    InitWith([t \in Threads |-> IF t = "t1" THEN MaxCalls ELSE 0], 0..MaxDelay,
             TodayValues)
Next ==
    \/ Tick
    \/ \E t \in Threads :
         \/ search_tenders(t, DefaultCriteria, DefaultPageSize, DefaultPageNumber)
         \/ get_tender_details(t, 1)
         \/ get_tender_map_details(t, 1)
         \/ RateLimitTime(t)
         \/ RateLimitCheck(t)
         \/ RateLimitWake(t)
         \/ RateLimitClock(t)
         \/ RateLimitStamp(t)
         \/ Send(t)
         \/ \E o \in IF req[t].op = "search_tenders"
                     THEN {Ok(PyList(Records(1))), Failed("HTTPError")}
                     ELSE DetailOutcomes : Respond(t, o)
Spec == Init /\ [][Next]_vars

(***************************************************************************)
(* SpecFresh: test_concurrent_request_handling.  Every thread constructs a *)
(* client of its own with a delay of one second and searches with it; the  *)
(* first thread searches a second time.                                    *)
(***************************************************************************)
InitFresh ==
    InitWith([t \in Threads |-> IF t = "t1" THEN 2 ELSE 1], {1}, TodayValues)
NextFresh ==
    \/ Tick
    \/ \E t \in Threads :
         \/ search_tenders(t, DefaultCriteria, DefaultPageSize, DefaultPageNumber)
         \/ RateLimitTime(t)
         \/ RateLimitCheck(t)
         \/ RateLimitWake(t)
         \/ RateLimitClock(t)
         \/ RateLimitStamp(t)
         \/ Send(t)
         \/ \E o \in {Ok(PyList(Records(1))), Failed("HTTPError")} : Respond(t, o)
SpecFresh == InitFresh /\ [][NextFresh]_vars

(***************************************************************************)
(* Properties of the payload search_tenders builds (SpecBuild).            *)
(***************************************************************************)
\* thread t has built the payload of a search request and sent it
Built(t) == req[t].op = "search_tenders" /\ pc[t] \in {"wait", "tool_wrap", "done"}

\* a value was supplied: it is not None and not an empty string or list
Supplied(x) == x # None /\ (x.t \in {"str", "list"} => x.v # <<>>)

Has(p, k) == k \in DOMAIN p

\* C1 as claimed: the payload never has both KodYeshuv and Yishuv; whenever
\* a settlement code is supplied (any integer, with or without a name) the
\* payload has KodYeshuv equal to it and no Yishuv; Yishuv is emitted only
\* when no code was supplied.
C1_AnyCodeSuppressesName ==
    \A t \in Threads : Built(t) =>
       LET c == req[t].criteria
           p == payload[t]
       IN /\ ~(Has(p, "KodYeshuv") /\ Has(p, "Yishuv"))
          /\ c.kod_yeshuv # None =>
                Has(p, "KodYeshuv") /\ p["KodYeshuv"] = c.kod_yeshuv /\ ~Has(p, "Yishuv")
          /\ Has(p, "Yishuv") => c.kod_yeshuv = None

\* C1 as amended: the payload never has both KodYeshuv and Yishuv; whenever
\* a non-zero settlement code is supplied, with or without a name, the
\* payload has KodYeshuv equal to it and no Yishuv; the name is emitted as
\* Yishuv, unchanged, only when no code or the code 0 was supplied; a code
\* of 0 is never emitted.
C1_CodeSuppressesName ==
    \A t \in Threads : Built(t) =>
       LET c == req[t].criteria
           p == payload[t]
       IN /\ ~(Has(p, "KodYeshuv") /\ Has(p, "Yishuv"))
          /\ (c.kod_yeshuv # None /\ c.kod_yeshuv.v # 0) =>
                Has(p, "KodYeshuv") /\ p["KodYeshuv"] = c.kod_yeshuv /\ ~Has(p, "Yishuv")
          /\ Has(p, "Yishuv") =>
                (c.kod_yeshuv = None \/ c.kod_yeshuv.v = 0) /\ p["Yishuv"] = c.settlement
          /\ (c.kod_yeshuv # None /\ c.kod_yeshuv.v = 0) => ~Has(p, "KodYeshuv")

\* a direct call with a non-zero code and a name has sent its payload
C1_Witness ==
    /\ Built("t1") /\ targs["t1"] = NoTool
    /\ req["t1"].criteria.kod_yeshuv = PyInt(7)
    /\ req["t1"].criteria.settlement = PyStr(<<"a">>)
    /\ Has(payload["t1"], "KodYeshuv")

\* C2: when the tool is called with kod_yeshuv null and a settlement name
\* that, stripped of surrounding whitespace, equals the name of a catalog
\* entry, the request sent has KodYeshuv equal to the code of the first
\* such entry in catalog order, and no Yishuv.
C2_NameResolvesToFirstCode ==
    \A t \in Threads :
       (Built(t) /\ targs[t] # NoTool /\ targs[t].args.kod_yeshuv = None
          /\ targs[t].args.settlement # None) =>
         \A i \in 1..Len(KOD_YESHUV_SETTLEMENTS) :
            (/\ KOD_YESHUV_SETTLEMENTS[i].name_hebrew = Strip(targs[t].args.settlement.v)
             /\ \A j \in 1..(i - 1) :
                   KOD_YESHUV_SETTLEMENTS[j].name_hebrew # Strip(targs[t].args.settlement.v))
            => /\ Has(payload[t], "KodYeshuv")
               /\ payload[t]["KodYeshuv"] = PyInt(KOD_YESHUV_SETTLEMENTS[i].kod_yeshuv)
               /\ ~Has(payload[t], "Yishuv")

\* the tool has sent a request for a name with blanks around it that two
\* catalog entries hold, and the request has the code of the first
C2_Witness ==
    /\ Built("t1") /\ targs["t1"] # NoTool
    /\ targs["t1"].args.kod_yeshuv = None
    /\ targs["t1"].args.settlement = PyStr(<<" ", "a", " ">>)
    /\ payload["t1"]["KodYeshuv"] = PyInt(5)

\* the optional filters with one key each, and the argument each comes from
FilterSource ==
    [MisMichraz |-> "tender_number", SugMichraz |-> "tender_types",
     Shchuna |-> "neighborhood", YeudMichraz |-> "tender_purposes",
     Merchav |-> "regions", StatusMichraz |-> "tender_statuses",
     PriorityPopulations |-> "priority_populations", hasResults |-> "has_results",
     sortBy |-> "sort_by", sortOrder |-> "sort_order"]
Flags == {"active_only", "quick_search"}

\* C3: the payload always has the two flags ActiveQuickSearch and
\* ActiveMichraz; each of the ten single-key filters is in the payload if
\* and only if its argument was supplied (not None and not empty), and then
\* has the argument's value; with no argument supplied but the flags, the
\* payload has the two flags and no other key.
C3_KeysFollowArguments ==
    \A t \in Threads : Built(t) =>
       LET c == req[t].criteria
           p == payload[t]
       IN /\ Has(p, "ActiveQuickSearch") /\ p["ActiveQuickSearch"] = c.quick_search
          /\ Has(p, "ActiveMichraz") /\ p["ActiveMichraz"] = c.active_only
          /\ \A k \in DOMAIN FilterSource :
                /\ Has(p, k) <=> Supplied(c[FilterSource[k]])
                /\ Has(p, k) => p[k] = c[FilterSource[k]]
          /\ (\A f \in DOMAIN c \ Flags : ~Supplied(c[f])) =>
                DOMAIN p = {"ActiveQuickSearch", "ActiveMichraz"}

\* a call with has_results False and an empty list of types has sent its
\* payload
C3_Witness ==
    /\ Built("t1")
    /\ req["t1"].criteria.has_results = PyBool(FALSE)
    /\ req["t1"].criteria.tender_types = PyList(<<>>)
    /\ Has(payload["t1"], "hasResults") /\ ~Has(payload["t1"], "SugMichraz")

\* the date-range filters: the payload key, the arguments of the client
\* that bound it, and the tool's DateRange argument
DateRanges ==
    {[key |-> "CloseDate", from |-> "submission_date_from",
      to |-> "submission_date_to", range |-> "submission_deadline"],
     [key |-> "VaadaDate", from |-> "committee_date_from",
      to |-> "committee_date_to", range |-> "committee_date"],
     [key |-> "PirsumDate", from |-> "publication_date_from",
      to |-> "publication_date_to", range |-> "publication_date"]}

\* C4: for each of CloseDate, VaadaDate and PirsumDate the payload has the
\* key if and only if a bound was supplied; its sub-object has 'from' iff
\* the lower bound was supplied and 'to' iff the upper bound was, and no
\* other key; and a request the tool sends for an empty DateRange has the
\* payload it has for no range at all.
C4_DateBoundsFollowArguments ==
    \A t \in Threads : Built(t) =>
       LET c == req[t].criteria
           p == payload[t]
       IN /\ \A r \in DateRanges :
                /\ Has(p, r.key) <=> (c[r.from] # None \/ c[r.to] # None)
                /\ Has(p, r.key) =>
                     /\ Has(p[r.key].v, "from") <=> c[r.from] # None
                     /\ Has(p[r.key].v, "to") <=> c[r.to] # None
                     /\ DOMAIN p[r.key].v \subseteq {"from", "to"}
          /\ targs[t] # NoTool =>
                \A r \in DateRanges :
                   targs[t].args[r.range] = DateRange(None, None) =>
                      /\ p = BuildPayload(ToolCriteria([targs[t].args EXCEPT ![r.range] = None],
                                                       today))
                      /\ (r.key # "CloseDate" \/ targs[t].args.days_back = None) =>
                            ~Has(p, r.key)

\* a direct call with only an upper submission bound has sent its payload
C4_Witness ==
    /\ Built("t1") /\ targs["t1"] = NoTool
    /\ req["t1"].criteria.submission_date_from = None
    /\ req["t1"].criteria.submission_date_to = Dt(2024, 1, 5)
    /\ DOMAIN payload["t1"]["CloseDate"].v = {"to"}

\* C5: 'purpose' is in the payload only when a purpose was given and no
\* list of purpose codes was supplied, 'region' only when a region was
\* given and no list of region codes was supplied; the payload never has
\* purpose with YeudMichraz, nor region with Merchav.
C5_LegacyYieldsToCodes ==
    \A t \in Threads : Built(t) =>
       LET c == req[t].criteria
           p == payload[t]
       IN /\ Has(p, "purpose") =>
                Supplied(c.purpose) /\ ~Supplied(c.tender_purposes) /\ p["purpose"] = c.purpose
          /\ Has(p, "region") =>
                Supplied(c.region) /\ ~Supplied(c.regions) /\ p["region"] = c.region
          /\ ~(Has(p, "purpose") /\ Has(p, "YeudMichraz"))
          /\ ~(Has(p, "region") /\ Has(p, "Merchav"))

\* a call with a purpose and a list of purpose codes has sent its payload
C5_Witness ==
    /\ Built("t1")
    /\ req["t1"].criteria.purpose = PyStr(<<"a">>)
    /\ req["t1"].criteria.tender_purposes = PyList(<<1>>)
    /\ Has(payload["t1"], "YeudMichraz")

(***************************************************************************)
(* Properties of the client's pagination (SpecPage).                       *)
(***************************************************************************)
\* thread t's search was answered by the upstream and has returned
Answered(t) ==
    req[t].op = "search_tenders" /\ pc[t] \in {"tool_wrap", "done"}
      /\ resp[t] # Pending /\ resp[t].ok

\* the upstream answered with a result sequence, bare or in an envelope
HasResults(t) ==
    Answered(t) /\ (resp[t].data.t = "list" \/ Has(resp[t].data.v, "results"))

\* the upstream result sequence, and the sequence search_tenders returned
UpstreamResults(t) ==
    IF resp[t].data.t = "list" THEN resp[t].data.v ELSE resp[t].data.v["results"].v
ReturnedResults(t) ==
    IF ret[t].t = "list" THEN ret[t].v ELSE ret[t].v["results"].v

\* the elements of seq at the 0-based positions lo .. hi-1
Positions(seq, lo, hi) ==
    [i \in 1..(IF hi > lo THEN hi - lo ELSE 0) |-> seq[lo + i]]
Elements(seq) == {seq[i] : i \in DOMAIN seq}

\* pages 1..k of a sequence, one after another
RECURSIVE PagesUpTo(_, _, _)
PagesUpTo(seq, size, k) ==
    IF k = 0 THEN <<>> ELSE PagesUpTo(seq, size, k - 1) \o Paginate(seq, size, k)

\* C6: for an upstream result sequence of length N, page size s >= 1 and
\* page number p >= 1, search_tenders returns exactly the elements at the
\* 0-based positions (p-1)*s .. min(p*s, N)-1, in upstream order; a page with
\* another number shares no element with it; pages 1..k one after another
\* are the first min(k*s, N) elements; a page past the end is empty and no
\* error.
C6_PageIsSlice ==
    \A t \in Threads :
       (HasResults(t) /\ req[t].page_size >= 1 /\ req[t].page_number >= 1) =>
         LET seq == UpstreamResults(t)
             N == Len(seq)
             size == req[t].page_size
             page == req[t].page_number
         IN /\ ret[t].t # "Exception"
            /\ ReturnedResults(t) = Positions(seq, (page - 1) * size, Min(page * size, N))
            /\ \A q \in 1..(MaxPageNumber + 1) :
                  q # page =>
                    Elements(Paginate(seq, size, q)) \cap Elements(ReturnedResults(t)) = {}
            /\ \A k \in 1..(MaxPageNumber + 1) :
                  PagesUpTo(seq, size, k) = Positions(seq, 0, Min(k * size, N))
            /\ (page - 1) * size >= N => ReturnedResults(t) = <<>>

\* the third page of five of twelve results has returned, with two results
C6_Witness ==
    /\ HasResults("t1")
    /\ Len(UpstreamResults("t1")) = 12
    /\ req["t1"].page_size = 5 /\ req["t1"].page_number = 3
    /\ ReturnedResults("t1") = <<11, 12>>

\* C7: when the upstream answers with an envelope that has a 'results'
\* field, what search_tenders returns is an envelope with the same keys,
\* and with the upstream's value at every key but 'results'; when the
\* envelope has no 'results' field it is returned unchanged.
C7_EnvelopeKept ==
    \A t \in Threads :
       (Answered(t) /\ resp[t].data.t = "dict") =>
         IF Has(resp[t].data.v, "results")
         THEN /\ ret[t].t = "dict"
              /\ DOMAIN ret[t].v = DOMAIN resp[t].data.v
              /\ \A k \in DOMAIN resp[t].data.v \ {"results"} :
                    ret[t].v[k] = resp[t].data.v[k]
              /\ ret[t].v["results"].t = "list"
         ELSE ret[t] = resp[t].data

\* an envelope with two fields besides 'results' has come back with a page
\* shorter than its results
C7_Witness ==
    /\ Answered("t1") /\ resp["t1"].data.t = "dict"
    /\ DOMAIN resp["t1"].data.v = {"results", "total", "message"}
    /\ Len(ret["t1"].v["results"].v) = 2
    /\ Len(resp["t1"].data.v["results"].v) = 3

(***************************************************************************)
(* Properties of the rate limiter (Spec, SpecFresh).  A dispatch begins    *)
(* at the clock reading that line 54 stores (RateLimitClock, stored by     *)
(* RateLimitStamp) and ends when the request returns or fails (Respond).   *)
(***************************************************************************)
\* C8: when search_tenders, get_tender_details and get_tender_map_details
\* are called one after another, in any mix, on one client with
\* rate_limit_delay d, every two consecutive dispatches begin at least d
\* apart, and k calls take at least (k-1)*d from the first call's
\* invocation to the last call's return.
C8_DispatchesSpaced ==
    \A c \in Clients :
       /\ disp[c].n >= 2 => disp[c].start - disp[c].prev >= rate_limit_delay[c]
       /\ disp[c].done >= 1 =>
             disp[c].end - disp[c].first >= (disp[c].done - 1) * rate_limit_delay[c]

\* three calls on a client with the largest delay have returned in exactly
\* twice the delay, the last of them a get_tender_map_details
C8_Witness ==
    /\ rate_limit_delay["c1"] = MaxDelay
    /\ disp["c1"].done = 3
    /\ disp["c1"].end - disp["c1"].first = 2 * MaxDelay
    /\ req["t1"].op = "get_tender_map_details"

\* C9 as claimed: when a dispatch begins, at least rate_limit_delay has
\* elapsed since the end of the previous dispatch on the same client: the
\* moment the previous request returned or failed.
C9_DelaySinceEnd ==
    \A c \in Clients :
       disp[c].n >= 2 => disp[c].since_end >= rate_limit_delay[c]

\* C9 as amended: when a dispatch begins on a client whose calls are made
\* one after another, at least rate_limit_delay has elapsed since the
\* previous dispatch began; since the previous dispatch ended, at least
\* rate_limit_delay less the time that dispatch took has elapsed.
C9_DelaySinceStart ==
    \A t \in Threads :
       (pc[t] = "send" /\ disp[inst[t]].n >= 2) =>
         LET d == disp[inst[t]]
         IN /\ now - d.prev >= rate_limit_delay[inst[t]]
            /\ now - d.end >= rate_limit_delay[inst[t]] - (d.end - d.prev)

\* a dispatch begins right after the previous one ended, a full delay after
\* it began
C9_Witness ==
    /\ pc["t1"] = "send" /\ disp["c1"].n >= 2
    /\ rate_limit_delay["c1"] = MaxDelay
    /\ now = disp["c1"].end
    /\ now - disp["c1"].prev = MaxDelay

\* the sum of f over the clients in S
RECURSIVE SumOver(_, _)
SumOver(f, S) ==
    IF S = {} THEN 0
    ELSE LET c == CHOOSE x \in S : TRUE IN f[c] + SumOver(f, S \ {c})

\* C10 as claimed: when every thread has constructed its own client and
\* made one successful search_tenders call with it, the calls took, from
\* invocation to return, at least rate_limit_delay on average; and the first
\* dispatch of a client begins at least rate_limit_delay after the call's
\* invocation.
C10_FirstCallDelayed ==
    /\ (\A t \in Threads : disp[inst[t]].done = 1 /\ resp[t] # Pending /\ resp[t].ok) =>
          SumOver([c \in Clients |-> disp[c].end - disp[c].first], Clients)
            >= SumOver(rate_limit_delay, Clients)
    /\ \A c \in Clients :
          disp[c].n = 1 => disp[c].start - disp[c].first >= rate_limit_delay[c]

(***************************************************************************)
(* Client instances driven from separate threads (SpecFresh).               *)
(***************************************************************************)
\* C11: client instances are independent.  A step changes a client's
\* rate-limit timestamp only when a thread calling that very client stores
\* its clock reading; and when a call begins to sleep, it sleeps for its own
\* client's rate_limit_delay less the time since that client's own previous
\* dispatch (0.0 before its first), never for more than its own
\* rate_limit_delay, whatever the other client has done in between.
C11_InstancesIndependent ==
    [][/\ \A c \in Clients :
             last_request_time'[c] # last_request_time[c] =>
               \E t \in Threads :
                  inst[t] = c /\ pc[t] = "rl_store" /\ pc'[t] = "send"
       /\ \A t \in Threads :
             (pc[t] = "rl_check" /\ pc'[t] = "rl_sleep") =>
               /\ loc'[t].wake - now =
                    rate_limit_delay[inst[t]]
                      - (loc[t].current_time
                           - (IF disp[inst[t]].n = 0 THEN 0 ELSE disp[inst[t]].start))
               /\ loc'[t].wake - now <= rate_limit_delay[inst[t]]]_vars

\* the second call on client c1 sleeps after the other thread's client c2 has
\* dispatched at another time than c1 did
C11_Witness ==
    /\ pc["t1"] = "rl_sleep" /\ disp["c1"].n = 1
    /\ disp["c2"].n = 1
    /\ last_request_time["c1"] # last_request_time["c2"]
    /\ loc["t1"].wake > now

(***************************************************************************)
(* Two threads sharing one client instance (SpecShared): no lock guards    *)
(* lines 50-54, so the steps of the two calls interleave freely.           *)
(***************************************************************************)
InitShared ==
    /\ now = Epoch
    /\ today \in TodayValues
    /\ rate_limit_delay \in
         {f \in [Clients -> 0..MaxDelay] : f["c1"] >= 1 /\ f["c2"] = 0}
    /\ last_request_time = [c \in Clients |-> 0]
    /\ inst = [t \in Threads |-> "c1"]
    /\ pc = [t \in Threads |-> "idle"]
    /\ req = [t \in Threads |-> NoReq]
    /\ targs = [t \in Threads |-> NoTool]
    /\ loc = [t \in Threads |-> NoLocals]
    /\ payload = [t \in Threads |-> None]
    /\ ret = [t \in Threads |-> Pending]
    /\ env = [t \in Threads |-> None]
    /\ calls_left = [t \in Threads |-> 1]
    /\ resp = [t \in Threads |-> Pending]
    /\ disp = [c \in Clients |-> NoDispatch]
NextShared ==
    \/ Tick
    \/ \E t \in Threads :
         \/ search_tenders(t, DefaultCriteria, DefaultPageSize, DefaultPageNumber)
         \/ get_tender_details(t, 1)
         \/ RateLimitTime(t)
         \/ RateLimitCheck(t)
         \/ RateLimitWake(t)
         \/ RateLimitClock(t)
         \/ RateLimitStamp(t)
         \/ Send(t)
         \/ \E o \in IF req[t].op = "search_tenders"
                     THEN {Ok(PyList(Records(1))), Failed("HTTPError")}
                     ELSE DetailOutcomes : Respond(t, o)
SpecShared == InitShared /\ [][NextShared]_vars

\* C12 as claimed: under every interleaving of two calls on the same
\* client, each call that has left _rate_limit has dispatched exactly once,
\* and the rate-limit timestamp never moves backwards: no step stores a
\* value lower than the one it replaces.
C12_TimestampNeverBackwards ==
    [][\A c \in Clients :
          /\ last_request_time'[c] >= last_request_time[c]
          /\ disp'[c].n =
               Cardinality({t \in Threads :
                              inst[t] = c /\ pc'[t] \in {"send", "wait", "done"}})]_vars

\* C12 as amended: under every interleaving of two calls on the same
\* client, each call that has left _rate_limit has dispatched exactly once
\* and each call that was answered has returned exactly once; the timestamp
\* is 0.0 until the first dispatch and from then on the clock reading that
\* one of the dispatched calls took on line 54, and every such reading was
\* taken during its call: not before the call read the clock on line 50 and
\* not after the present.  Two dispatches may be less than rate_limit_delay
\* apart, and the timestamp may step back to the earlier of two readings.
C12_RaceBenign ==
    \A c \in Clients :
       LET Dispatched == {t \in Threads :
                            inst[t] = c /\ pc[t] \in {"send", "wait", "done"}}
       IN /\ disp[c].n = Cardinality(Dispatched)
          /\ disp[c].done = Cardinality({t \in Dispatched : pc[t] = "done"})
          /\ \A t \in Dispatched : pc[t] = "done" <=> ret[t] # Pending
          /\ IF Dispatched = {} THEN last_request_time[c] = 0
             ELSE \E t \in Dispatched : last_request_time[c] = loc[t].request_time
          /\ \A t \in Dispatched :
                /\ loc[t].current_time <= loc[t].request_time
                /\ loc[t].request_time <= now

\* both calls have dispatched less than the delay apart, and the timestamp
\* holds the earlier of their two readings
C12_Witness ==
    /\ disp["c1"].n = 2
    /\ rate_limit_delay["c1"] = MaxDelay
    /\ \E t \in Threads : last_request_time["c1"] < loc[t].request_time
    /\ \A t \in Threads : pc[t] = "done"

(***************************************************************************)
(* SpecTools: one call of any of the seven tools, answered by the layer    *)
(* below with every kind of body or failure.                               *)
(***************************************************************************)
\* the names get_kod_yeshuv is asked for: blanks, a letter of the catalog in
\* both cases, and a second letter
Queries == UNION {[1..n -> {" ", "a", "A", "b"}] : n \in 0..MaxNameLen}

\* the body of a detail lookup: a tender, the not-found bodies (identifier 0
\* or null, with or without the embedded message), JSON null, or a failure
ToolDetailOutcomes ==
    LET MessageDetails ==
          [t |-> "dict",
           v |-> [messageCode |-> PyInt(1), messageText |-> PyStr(<<"a">>)]]
    IN {Ok([t |-> "dict", v |-> [MichrazID |-> PyInt(1)]]),
        Ok([t |-> "dict",
            v |-> [MichrazID |-> PyInt(0), MessageDetails |-> MessageDetails]]),
        Ok([t |-> "dict",
            v |-> [MichrazID |-> None, MessageDetails |-> MessageDetails]]),
        Ok([t |-> "dict", v |-> [MichrazID |-> PyInt(0)]]),
        Ok(None)}
         \cup {Failed(e) : e \in Failures}

InitTools == InitWith(OneCall, {0}, TodayValues)
\* search_tenders is called with the defaults, a well-formed and a malformed
\* date, and limits below, at and above the number of records and the page
\* size cap; the other tools with a few values of their arguments
NextTools ==
    \/ \E args \in
           {DefaultToolArgs,
            [DefaultToolArgs EXCEPT
               !.submission_deadline = DateRange(PyStr(Padded), None)],
            [DefaultToolArgs EXCEPT
               !.committee_date = DateRange(None, PyStr(IsoDate))]}
             \cup {[DefaultToolArgs EXCEPT !.max_results = PyInt(n)] :
                     n \in {-1, 0, 2, 3, MaxPageSizeOfTool + 1}} :
         tool_search_tenders("t1", args)
    \/ \E id \in {-1, 1} : tool_get_tender_details("t1", [michraz_id |-> id])
    \/ \E id \in {-1, 1} : tool_get_tender_map_details("t1", [michraz_id |-> id])
    \/ \E n \in {-1, 0, 2, DefaultPageSize} :
         tool_get_active_tenders("t1", [max_results |-> n])
    \/ \E args \in [tender_types : {None, PyList(<<1>>)},
                     purpose : {None, PyStr(<<"a">>)},
                     active_only : {PyBool(FALSE), PyBool(TRUE)}] :
         tool_search_by_type("t1", args)
    \/ \E n \in {0, 30} : tool_get_recent_results("t1", [days |-> n])
    \/ \E q \in Queries : tool_get_kod_yeshuv("t1", [settlement_name |-> q])
    \/ RateLimitTime("t1")
    \/ RateLimitCheck("t1")
    \/ RateLimitClock("t1")
    \/ RateLimitStamp("t1")
    \/ Send("t1")
    \/ \E o \in IF req["t1"].op = "search_tenders"
                THEN BuildOutcomes
                       \cup {Ok(None), Failed("ConnectionError"),
                             Ok(PyList(Records(MaxPageSizeOfTool + 1)))}
                ELSE ToolDetailOutcomes : Respond("t1", o)
    \/ ToolReturn("t1")
SpecTools == InitTools /\ [][NextTools]_vars

(***************************************************************************)
(* Properties of the tools' envelopes (SpecTools).                         *)
(***************************************************************************)
\* C13: no exception crosses the tool boundary.  Whichever of the seven
\* tools was called and whatever the layer below returned or raised, the
\* tool returns an envelope with a boolean 'success'; when the layer below
\* raised, success is false and 'error' is the message of what it raised.
C13_NoExceptionCrosses ==
    \A t \in Threads :
       (pc[t] = "done" /\ targs[t] # NoTool) =>
          /\ "success" \in DOMAIN env[t]
          /\ env[t].success \in BOOLEAN
          /\ (ret[t] # Pending /\ Raised(ret[t])) =>
                /\ env[t].success = FALSE
                /\ "error" \in DOMAIN env[t]
                /\ env[t].error = [f \in DOMAIN ret[t] \ {"t"} |-> ret[t][f]]

\* get_tender_details has returned after the request failed with a
\* connection error
C13_Witness ==
    /\ pc["t1"] = "done" /\ targs["t1"].tool = "get_tender_details"
    /\ resp["t1"] = Failed("ConnectionError")
    /\ env["t1"].success = FALSE

\* C14 as claimed: every failure envelope a tool returns echoes the caller's
\* input next to the error: the tender id for details and map details, the
\* search parameters for search_tenders, the type filter for search_by_type,
\* the day count for get_recent_results, the searched name for
\* get_kod_yeshuv, and the requested limit for get_active_tenders.
C14_FailureEchoesInput ==
    \A t \in Threads :
       (pc[t] = "done" /\ targs[t] # NoTool /\ env[t].success = FALSE) =>
          LET args == targs[t].args
              tool == targs[t].tool
              Echo(key, value) == key \in DOMAIN env[t] /\ env[t][key] = value
          IN /\ "error" \in DOMAIN env[t]
             /\ CASE tool \in {"get_tender_details", "get_tender_map_details"} ->
                       Echo("tender_id", args.michraz_id)
                  [] tool = "search_tenders" ->
                       Echo("search_parameters", ModelDump(args))
                  [] tool = "search_by_type" ->
                       Echo("type_search", [tender_types |-> args.tender_types,
                                            purpose |-> args.purpose])
                  [] tool = "get_recent_results" -> Echo("days_back", args.days)
                  [] tool = "get_kod_yeshuv" ->
                       \/ Echo("searched_name", args.settlement_name)
                       \/ Echo("searched_name", Strip(args.settlement_name))
                  [] OTHER ->
                       \E key \in DOMAIN env[t] \ {"success", "error"} :
                          env[t][key] = args.max_results

\* C15: when the upstream answers a detail lookup successfully with a body
\* that signals 'not found' (identifier 0 or null, or an embedded
\* MessageDetails object), get_tender_details returns success=true,
\* tender_id equal to the requested id and 'details' equal to the upstream
\* body unchanged, the embedded message included.
C15_NotFoundPassedThrough ==
    \A t \in Threads :
       (/\ pc[t] = "done" /\ targs[t] # NoTool
        /\ targs[t].tool = "get_tender_details"
        /\ resp[t].ok /\ resp[t].data # None
        /\ \/ "MessageDetails" \in DOMAIN resp[t].data.v
           \/ resp[t].data.v["MichrazID"] \in {None, PyInt(0)}) =>
          env[t] = [success |-> TRUE, tender_id |-> targs[t].args.michraz_id,
                    details |-> resp[t].data]

\* get_tender_details(-1) has returned the body with identifier 0 and the
\* embedded message
C15_Witness ==
    /\ pc["t1"] = "done" /\ targs["t1"].tool = "get_tender_details"
    /\ targs["t1"].args.michraz_id = -1
    /\ resp["t1"].ok /\ resp["t1"].data # None
    /\ "MessageDetails" \in DOMAIN resp["t1"].data.v
    /\ resp["t1"].data.v["MichrazID"] = PyInt(0)
    /\ env["t1"].success /\ env["t1"].details = resp["t1"].data

(***************************************************************************)
(* Malformed dates (SpecBuild).                                            *)
(***************************************************************************)
\* C16 as claimed: when any supplied bound of the submission, committee or
\* publication range of search_tenders is not a string strptime accepts as
\* dd/mm/yy, the tool fails fast: it returns success=false with the parse
\* error, no request is dispatched and the client's rate-limit timestamp is
\* unchanged.
C16_MalformedDateFailsFast ==
    \A t \in Threads :
       LET Bad == {rb \in DateRanges \X {"from_date", "to_date"} :
                     /\ targs[t].args[rb[1].range] # None
                     /\ targs[t].args[rb[1].range][rb[2]] # None
                     /\ strptime(targs[t].args[rb[1].range][rb[2]].v).t = "ValueError"}
       IN (targs[t] # NoTool /\ targs[t].tool = "search_tenders" /\ Bad # {}) =>
             /\ pc[t] = "done"
             /\ env[t].success = FALSE
             /\ \E rb \in Bad :
                   env[t].error = [v |-> targs[t].args[rb[1].range][rb[2]].v]
             /\ payload[t] = None
             /\ disp[inst[t]].n = 0
             /\ last_request_time[inst[t]] = 0

\* C16 as amended: when any supplied non-empty bound of the submission,
\* committee or publication range of search_tenders is not a string strptime
\* accepts as dd/mm/yy, the tool fails fast: it returns success=false with
\* the parse error of such a bound, no request is dispatched and the
\* client's rate-limit timestamp is unchanged.  (An empty string is taken as
\* no bound at all.)
C16_NonEmptyMalformedDateFailsFast ==
    \A t \in Threads :
       LET Bad == {rb \in DateRanges \X {"from_date", "to_date"} :
                     /\ targs[t].args[rb[1].range] # None
                     /\ targs[t].args[rb[1].range][rb[2]] # None
                     /\ Len(targs[t].args[rb[1].range][rb[2]].v) > 0
                     /\ strptime(targs[t].args[rb[1].range][rb[2]].v).t = "ValueError"}
       IN (targs[t] # NoTool /\ targs[t].tool = "search_tenders" /\ Bad # {}) =>
             /\ pc[t] = "done"
             /\ env[t].success = FALSE
             /\ \E rb \in Bad :
                   env[t].error = [v |-> targs[t].args[rb[1].range][rb[2]].v]
             /\ payload[t] = None
             /\ disp[inst[t]].n = 0
             /\ last_request_time[inst[t]] = 0

\* the tool has returned a failure for an upper bound naming a day its month
\* does not have
C16_Witness ==
    /\ pc["t1"] = "done" /\ targs["t1"] # NoTool
    /\ targs["t1"].tool = "search_tenders"
    /\ \E r \in DateRanges :
          targs["t1"].args[r.range] = DateRange(None, PyStr(NoSuchDay))
    /\ env["t1"].success = FALSE
    /\ disp["c1"].n = 0

(***************************************************************************)
(* SpecRetry: the calls of Spec, each attempt of a request answered with   *)
(* any status.                                                             *)
(***************************************************************************)
NextRetry ==
    \/ Tick
    \/ search_tenders("t1", DefaultCriteria, DefaultPageSize, DefaultPageNumber)
    \/ get_tender_details("t1", 1)
    \/ get_tender_map_details("t1", 1)
    \/ RateLimitTime("t1")
    \/ RateLimitCheck("t1")
    \/ RateLimitWake("t1")
    \/ RateLimitClock("t1")
    \/ RateLimitStamp("t1")
    \/ Send("t1")
    \/ \E status \in {NoConnection, 200, 404, 429, 500, 502, 503, 504} :
         \/ RequestRetried("t1", status)
         \/ RequestAnswered("t1", status)
SpecRetry == Init /\ [][NextRetry]_vars

\* C17 as claimed: a request makes at most 3 attempts in total (the attempt
\* in flight or last made, and the retries before it); a request whose every
\* attempt was answered with a status in {429, 500, 502, 503, 504} ends with
\* the operation failing.
C17_AtMostThreeAttempts ==
    \A t \in Threads :
       /\ pc[t] \in {"wait", "done"} => loc[t].retries + 1 <= 3
       /\ (resp[t] # Pending /\ ~resp[t].ok
           /\ resp[t].error.status \in {429, 500, 502, 503, 504}) =>
             pc[t] = "done" /\ Raised(ret[t])

(***************************************************************************)
(* Properties of get_kod_yeshuv (SpecTools).  The catalog entries a query  *)
(* matches are described here position by position, apart from the         *)
(* operators the tool is modelled with.                                    *)
(***************************************************************************)
\* the positions of the catalog entries whose name equals the trimmed query
ExactPositions(q) ==
    {i \in 1..Len(KOD_YESHUV_SETTLEMENTS) :
        KOD_YESHUV_SETTLEMENTS[i].name_hebrew = Strip(q)}

\* the positions of the catalog entries whose lower-cased name contains the
\* lower-cased trimmed query or is contained in it
PartialPositions(q) ==
    LET low(s) == [k \in 1..Len(s) |-> IF s[k] = "A" THEN "a" ELSE s[k]]
        sub(hay, needle) ==
            \E i \in 0..(Len(hay) - Len(needle)) :
               \A k \in 1..Len(needle) : hay[i + k] = needle[k]
    IN {i \in 1..Len(KOD_YESHUV_SETTLEMENTS) :
          \/ sub(low(KOD_YESHUV_SETTLEMENTS[i].name_hebrew), low(Strip(q)))
          \/ sub(low(Strip(q)), low(KOD_YESHUV_SETTLEMENTS[i].name_hebrew))}

\* get_kod_yeshuv has returned to thread t
KodReturned(t) ==
    pc[t] = "done" /\ targs[t] # NoTool /\ targs[t].tool = "get_kod_yeshuv"

\* C18: get_kod_yeshuv returns match_type 'exact' with success=true exactly
\* when some catalog entry's name equals the whitespace-trimmed query, case
\* and all; the kod_yeshuv returned is the code of the first such entry in
\* catalog order, and no partial_matches are returned with it.
C18_ExactMatchFirst ==
    \A t \in Threads : KodReturned(t) =>
       LET exact == ExactPositions(targs[t].args.settlement_name)
       IN /\ ("match_type" \in DOMAIN env[t] /\ env[t].match_type = "exact")
                <=> exact # {}
          /\ exact # {} =>
                /\ env[t].success = TRUE
                /\ env[t].kod_yeshuv =
                     KOD_YESHUV_SETTLEMENTS[CHOOSE i \in exact :
                                              \A j \in exact : i <= j].kod_yeshuv
                /\ "partial_matches" \notin DOMAIN env[t]

\* a padded query equal to a name that two entries hold has returned the
\* code of the first of them
C18_Witness ==
    /\ KodReturned("t1")
    /\ targs["t1"].args.settlement_name = <<" ", "a", " ">>
    /\ Cardinality(ExactPositions(<<" ", "a", " ">>)) = 2
    /\ env["t1"].match_type = "exact"
    /\ env["t1"].kod_yeshuv = 5

\* C19 as claimed: whenever no exact match exists, get_kod_yeshuv returns
\* match_type 'partial' with partial_matches equal to the first 10, in
\* catalog order, of the entries that pass a containment test.  A query that
\* no entry matches either way has no exact match and is answered with no
\* match_type at all.
C19_NoExactMeansPartial ==
    \A t \in Threads : KodReturned(t) =>
       LET exact == ExactPositions(targs[t].args.settlement_name)
           partial == PartialPositions(targs[t].args.settlement_name)
       IN exact = {} =>
             /\ "match_type" \in DOMAIN env[t]
             /\ env[t].match_type = "partial"
             /\ Len(env[t].partial_matches) = Min(Cardinality(partial), PartialLimit)

\* C19, amended: when no exact match exists and some entry matches partially,
\* get_kod_yeshuv returns match_type 'partial' with partial_matches equal to
\* the first 10, in catalog order, of all catalog entries whose lower-cased
\* name contains the lower-cased query or is contained in it; the list never
\* has more than 10 entries and never has an entry that fails both tests.
C19_PartialMatchesFirstTen ==
    \A t \in Threads : KodReturned(t) =>
       LET exact == ExactPositions(targs[t].args.settlement_name)
           partial == PartialPositions(targs[t].args.settlement_name)
           \* the k-th matching position, counted from 1
           nth(k) == CHOOSE i \in partial : Cardinality({j \in partial : j < i}) = k - 1
       IN /\ (exact = {} /\ partial # {}) =>
                /\ env[t].success = TRUE
                /\ env[t].match_type = "partial"
                /\ Len(env[t].partial_matches) = Min(Cardinality(partial), PartialLimit)
                /\ \A k \in 1..Len(env[t].partial_matches) :
                      env[t].partial_matches[k] =
                        [settlement_name |-> KOD_YESHUV_SETTLEMENTS[nth(k)].name_hebrew,
                         kod_yeshuv |-> KOD_YESHUV_SETTLEMENTS[nth(k)].kod_yeshuv,
                         similarity |-> "partial"]
          /\ "partial_matches" \in DOMAIN env[t] =>
                /\ Len(env[t].partial_matches) <= PartialLimit
                /\ \A k \in 1..Len(env[t].partial_matches) :
                      \E i \in partial :
                         env[t].partial_matches[k].kod_yeshuv
                           = KOD_YESHUV_SETTLEMENTS[i].kod_yeshuv

\* a query in the other case than the catalog's names matches more than 10
\* entries, and the first 10 of them have been returned
C19_Witness ==
    /\ KodReturned("t1")
    /\ targs["t1"].args.settlement_name = <<"A">>
    /\ Cardinality(PartialPositions(<<"A">>)) > PartialLimit
    /\ env["t1"].match_type = "partial"
    /\ Len(env["t1"].partial_matches) = PartialLimit

\* C20: get_kod_yeshuv reports 'no match' if and only if the catalog has
\* neither an exact nor a partial match for the query; that outcome is a
\* returned value with success=false, an error and a suggestion; and for
\* every query exactly one of the outcomes exact, partial, none is returned.
C20_NoneIffNoMatch ==
    \A t \in Threads : KodReturned(t) =>
       LET none == /\ env[t].success = FALSE
                   /\ {"error", "suggestion"} \subseteq DOMAIN env[t]
                   /\ "match_type" \notin DOMAIN env[t]
           exact == /\ env[t].success = TRUE /\ "match_type" \in DOMAIN env[t]
                    /\ env[t].match_type = "exact"
           partial == /\ env[t].success = TRUE /\ "match_type" \in DOMAIN env[t]
                      /\ env[t].match_type = "partial"
       IN /\ none <=> (/\ ExactPositions(targs[t].args.settlement_name) = {}
                       /\ PartialPositions(targs[t].args.settlement_name) = {})
          /\ Cardinality({o \in {"exact", "partial", "none"} :
                            \/ o = "exact" /\ exact
                            \/ o = "partial" /\ partial
                            \/ o = "none" /\ none}) = 1
          /\ env[t].success = FALSE => none

\* a query of a letter pair no name has, and that no name is part of, has
\* been answered with no match
C20_Witness ==
    /\ KodReturned("t1")
    /\ targs["t1"].args.settlement_name = <<"b", " ", "b">>
    /\ env["t1"].success = FALSE
    /\ "suggestion" \in DOMAIN env["t1"]

(***************************************************************************)
(* Properties of the result limit and of the search tools' requests        *)
(* (SpecTools).                                                            *)
(***************************************************************************)
\* the tool a thread called has returned a success envelope
ToolSucceeded(t, tools) ==
    /\ pc[t] = "done" /\ targs[t] # NoTool /\ targs[t].tool \in tools
    /\ env[t].success = TRUE

\* C21 as claimed: max_results is the maximum number of results returned.
\* For every integer max_results and every upstream result sequence, a
\* successful envelope of search_tenders and of get_active_tenders has count
\* equal to the length of the tender list it returns, and count <=
\* max_results.
C21_CountWithinMaxResults ==
    \A t \in Threads :
       /\ ToolSucceeded(t, {"search_tenders"}) =>
             /\ env[t].count = Len(env[t].tenders)
             /\ env[t].count <= targs[t].args.max_results.v
       /\ ToolSucceeded(t, {"get_active_tenders"}) =>
             /\ env[t].count = Len(env[t].active_tenders)
             /\ env[t].count <= targs[t].args.max_results

\* C22 as claimed: when the search_by_type tool is called with
\* active_only=true, only active tenders are requested: the payload sent
\* upstream has ActiveMichraz=true, and ActiveMichraz=false when active_only
\* is false.
C22_TypeSearchHonoursActiveOnly ==
    \A t \in Threads :
       (targs[t] # NoTool /\ targs[t].tool = "search_by_type" /\ payload[t] # None) =>
          payload[t]["ActiveMichraz"] = targs[t].args.active_only

(***************************************************************************)
(* SpecTwice: two calls one after another on one client while the clock    *)
(* runs, the first made by thread t1 and the second by thread t2 once the  *)
(* first has returned or raised; what each call was given and what it       *)
(* built and returned stays on record under its thread.                    *)
(***************************************************************************)
NextTwice ==
    \/ Tick
    \/ \E t \in Threads :
         /\ t = "t2" => pc["t1"] = "done"
         /\ \E c \in {DefaultCriteria,
                      [DefaultCriteria EXCEPT !.kod_yeshuv = PyInt(7),
                                              !.settlement = PyStr(<<"a">>)],
                      [DefaultCriteria EXCEPT
                         !.submission_date_from = Dt(2024, 1, 5)],
                      [DefaultCriteria EXCEPT !.has_results = PyBool(FALSE)]} :
              search_tenders(t, c, DefaultPageSize, DefaultPageNumber)
    \/ \E t \in Threads :
         /\ t = "t2" => pc["t1"] = "done"
         /\ get_tender_details(t, -1)
    \/ \E t \in Threads :
         \/ RateLimitTime(t)
         \/ RateLimitCheck(t)
         \/ RateLimitWake(t)
         \/ RateLimitClock(t)
         \/ RateLimitStamp(t)
         \/ Send(t)
         \/ \E o \in IF req[t].op = "search_tenders"
                     THEN {Ok(PyList(Records(1))), Failed("HTTPError")}
                     ELSE DetailOutcomes : Respond(t, o)
SpecTwice == InitShared /\ [][NextTwice]_vars

C24_OneRequestPerCall ==
    \A t \in Threads :
       targs[t] # NoTool =>
          LET d == disp[inst[t]]
          IN /\ d.n <= 1 /\ d.done <= d.n
             /\ (pc[t] = "done" /\ req[t] # NoReq) =>
                   /\ d.n = 1 /\ d.done = 1
                   /\ payload[t] # None
                   /\ resp[t] # Pending
                   /\ loc[t].retries = 0
             /\ (pc[t] = "done" /\ req[t] = NoReq) =>
                   d.n = 0 /\ payload[t] = None /\ resp[t] = Pending
             /\ pc[t] = "done" => calls_left[t] = 0

\* search_tenders has returned a failure envelope after its one request
\* failed
C24_Witness ==
    /\ pc["t1"] = "done" /\ targs["t1"].tool = "search_tenders"
    /\ resp["t1"] = Failed("HTTPError")
    /\ env["t1"].success = FALSE
    /\ disp["c1"].n = 1 /\ disp["c1"].done = 1

(***************************************************************************)
(* Properties of failures that are not retried (SpecRetry).                *)
(***************************************************************************)
\* the message the client's exception has for the operation r
FailureMessage(r) ==
    CASE r.op = "search_tenders" -> "Failed to search tenders"
      [] r.op = "get_tender_details" -> "Failed to get tender details for ID"
      [] OTHER -> "Failed to get map details for tender ID"

SearchTools ==
    {"search_tenders", "get_active_tenders", "search_by_type", "get_recent_results"}

\* the key under which a search tool returns its tender list
ListKey(tool) ==
    CASE tool = "get_active_tenders" -> "active_tenders"
      [] tool = "get_recent_results" -> "recent_results"
      [] OTHER -> "tenders"

\* the tender list of an envelope, as a sequence: the tools that slice it
\* hold a sequence, the others the list object the client returned
ListOf(tool, envelope) ==
    IF tool \in {"search_tenders", "get_active_tenders"}
    THEN envelope[ListKey(tool)] ELSE envelope[ListKey(tool)].v

\* C26: the tool layer normalizes both upstream shapes to one envelope.  For
\* every record sequence L and every search tool, the envelope produced when
\* the upstream answers with the bare list L is identical to the envelope
\* produced when it answers with the object {results: L}, whatever other
\* fields the object has; the tender list in the envelope is a sequence
\* (never the object) and count is its length.
C26_BothShapesOneEnvelope ==
    \A t \in Threads :
       (/\ pc[t] = "done" /\ targs[t] # NoTool /\ targs[t].tool \in SearchTools
        /\ resp[t] # Pending /\ resp[t].ok /\ resp[t].data # None
        /\ resp[t].data.t = "list" \/ "results" \in DOMAIN resp[t].data.v) =>
          LET tool == targs[t].tool
              L == IF resp[t].data.t = "list" THEN resp[t].data.v
                   ELSE resp[t].data.v["results"].v
              \* the same records in each of the shapes
              Shapes == {PyList(L)} \cup
                        {[t |-> "dict",
                          v |-> [k \in {"results"} \cup x |->
                                   IF k = "results" THEN PyList(L) ELSE PyInt(Len(L))]] :
                           x \in {{}, {"total"}}}
          IN /\ \A data \in Shapes :
                   env[t] = ToolEnvelope(targs[t], ClientReturn(req[t], Ok(data)))
             /\ env[t].success = TRUE
             /\ ListKey(tool) \in DOMAIN env[t]
             /\ DOMAIN ListOf(tool, env[t]) = 1..Len(ListOf(tool, env[t]))
             /\ env[t].count = Len(ListOf(tool, env[t]))
             /\ \A i \in 1..env[t].count : ListOf(tool, env[t])[i] = L[i]

\* get_recent_results has returned the three records of an upstream object
\* that has another field besides 'results'
C26_Witness ==
    /\ pc["t1"] = "done" /\ targs["t1"].tool = "get_recent_results"
    /\ resp["t1"].ok /\ resp["t1"].data # None /\ resp["t1"].data.t = "dict"
    /\ DOMAIN resp["t1"].data.v = {"results", "total"}
    /\ env["t1"].count = 3
    /\ env["t1"].recent_results = PyList(Records(3))

(***************************************************************************)
(* Precedence of the structured arguments of search_tenders over the       *)
(* legacy ones, and the resolution of settlement names (SpecBuild).        *)
(***************************************************************************)
\* the search_tenders tool was called by thread t and has sent its request
ToolBuilt(t) ==
    Built(t) /\ targs[t] # NoTool /\ targs[t].tool = "search_tenders"

\* the date CloseDate.from of the payload stands for, or None
CloseDateFrom(p) ==
    IF Has(p, "CloseDate") /\ Has(p["CloseDate"].v, "from")
    THEN strptime(p["CloseDate"].v["from"].v) ELSE None

\* C27 as claimed: the structured submission-deadline lower bound wins over
\* the legacy days_back.  When search_tenders gets both
\* submission_deadline.from_date and days_back, the outbound CloseDate.from
\* is the supplied from_date and days_back has no effect on the payload (the
\* payload is the one sent without days_back); days_back has an effect, and
\* then sets CloseDate.from to (now - days_back days), only when no
\* structured lower bound was given.
C27_StructuredBoundWins ==
    \A t \in Threads : ToolBuilt(t) =>
       LET args == targs[t].args
           given == args.submission_deadline # None
                      /\ args.submission_deadline.from_date # None
           effect == payload[t] #
                       BuildPayload(ToolCriteria([args EXCEPT !.days_back = None], today))
       IN /\ (given /\ args.days_back # None) =>
                /\ CloseDateFrom(payload[t])
                     = (IF args.submission_deadline.from_date.v = <<>> THEN None
                        ELSE strptime(args.submission_deadline.from_date.v))
                /\ ~effect
          /\ effect =>
                /\ ~given
                /\ CloseDateFrom(payload[t]) = MinusDays(today, args.days_back.v)

\* C27 as amended: when search_tenders gets both a non-empty
\* submission_deadline.from_date and days_back, the outbound CloseDate.from
\* is the supplied from_date and days_back has no effect on the payload;
\* days_back has an effect, and then sets CloseDate.from to (now - days_back
\* days), only when no structured lower bound, or an empty one, was given.
C27_NonEmptyStructuredBoundWins ==
    \A t \in Threads : ToolBuilt(t) =>
       LET args == targs[t].args
           given == args.submission_deadline # None
                      /\ args.submission_deadline.from_date # None
                      /\ Len(args.submission_deadline.from_date.v) > 0
           effect == payload[t] #
                       BuildPayload(ToolCriteria([args EXCEPT !.days_back = None], today))
       IN /\ (given /\ args.days_back # None) =>
                /\ CloseDateFrom(payload[t])
                     = strptime(args.submission_deadline.from_date.v)
                /\ ~effect
          /\ effect =>
                /\ ~given
                /\ CloseDateFrom(payload[t]) = MinusDays(today, args.days_back.v)

\* a call with an unpadded lower bound and days_back has sent the bound,
\* padded, as CloseDate.from
C27_Witness ==
    /\ ToolBuilt("t1")
    /\ targs["t1"].args.submission_deadline = DateRange(PyStr(Unpadded), PyStr(Padded))
    /\ targs["t1"].args.days_back = PyInt(61)
    /\ payload["t1"]["CloseDate"].v["from"] = PyStr(Padded)

(***************************************************************************)
(* Recovery after a failed call (SpecTwice): t1's call is the first on the *)
(* client and t2's the second.                                             *)
(***************************************************************************)
\* the first call has returned or raised and the second has not yet stored
\* a timestamp of its own
SecondBeforeStore ==
    pc["t1"] = "done" /\ pc["t2"] \in {"idle", "rl_time", "rl_check", "rl_sleep",
                                        "rl_stamp", "rl_store"}

\* C28: an operation that fails upstream leaves the client usable.  The
\* failed call has advanced the rate-limit timestamp like a successful one:
\* to the clock reading it took before dispatching.  The operation that
\* follows on the same client measures from that reading and waits for the
\* delay less the time since then, never for more than the delay; once it
\* has returned it was dispatched once, and it has succeeded if and only if
\* the upstream answered it, whatever became of the call before.
C28_ClientUsableAfterFailure ==
    LET c == inst["t1"] IN
    /\ SecondBeforeStore =>
          /\ last_request_time[c] = loc["t1"].request_time
          /\ last_request_time[c] = disp[c].start
          /\ last_request_time[c] >= Epoch
    /\ (pc["t1"] = "done" /\ pc["t2"] = "rl_sleep") =>
          /\ loc["t2"].time_since_last = loc["t2"].current_time - loc["t1"].request_time
          /\ loc["t2"].wake - now <= rate_limit_delay[c]
    /\ pc["t2"] = "done" =>
          /\ disp[c].n = 2 /\ disp[c].done = 2
          /\ resp["t2"].ok => ~Raised(ret["t2"])
          /\ ~resp["t2"].ok => Raised(ret["t2"])

\* get_tender_details(-1) failed, and the search that followed on the same
\* client slept, was dispatched a full delay after the failed call and
\* returned a result
C28_Witness ==
    /\ pc["t1"] = "done" /\ req["t1"].op = "get_tender_details"
    /\ ~resp["t1"].ok /\ Raised(ret["t1"])
    /\ pc["t2"] = "done" /\ req["t2"].op = "search_tenders"
    /\ resp["t2"].ok /\ ret["t2"] = PyList(Records(1))
    /\ loc["t2"].wake > 0
    /\ loc["t2"].request_time - loc["t1"].request_time = rate_limit_delay["c1"]

\* the tool's envelope reports on the settlement conversion
Conversion(t) == env[t].search_summary.settlement_conversion

\* C29 as claimed: the search_tenders tool resolves a settlement name by
\* exact match only.  When the name has no exact catalog match (even if it
\* has partial matches) and no kod_yeshuv was given, the outbound payload
\* has Yishuv equal to the name as given and no KodYeshuv, and
\* search_summary.settlement_conversion reports conversion_successful=false
\* with kod_yeshuv_resolved null; conversion_successful is true exactly when
\* the outbound KodYeshuv came from resolving the name.
C29_ExactMatchOnly ==
    \A t \in Threads : ToolBuilt(t) =>
       LET args == targs[t].args
           p == payload[t]
           unmatched == /\ args.settlement # None /\ args.kod_yeshuv = None
                        /\ ExactPositions(args.settlement.v) = {}
           resolved == /\ Has(p, "KodYeshuv") /\ p["KodYeshuv"] # args.kod_yeshuv
                       /\ args.settlement # None
                       /\ \E i \in ExactPositions(args.settlement.v) :
                             p["KodYeshuv"] = PyInt(KOD_YESHUV_SETTLEMENTS[i].kod_yeshuv)
       IN /\ unmatched =>
                /\ Has(p, "Yishuv") /\ p["Yishuv"] = args.settlement
                /\ ~Has(p, "KodYeshuv")
          /\ (pc[t] = "done" /\ env[t].success) =>
                /\ unmatched =>
                      /\ Conversion(t).conversion_successful = FALSE
                      /\ Conversion(t).kod_yeshuv_resolved = None
                /\ Conversion(t).conversion_successful <=> resolved

\* C29 as amended: the same for a non-empty name.  When a non-empty name has
\* no exact catalog match (even if it has partial matches) and no kod_yeshuv
\* was given, the outbound payload has Yishuv equal to the name as given and
\* no KodYeshuv, and the conversion is reported unsuccessful with
\* kod_yeshuv_resolved null; conversion_successful is true exactly when the
\* outbound KodYeshuv came from resolving the name.  (An empty name is sent
\* neither as Yishuv nor as a code.)
C29_NonEmptyExactMatchOnly ==
    \A t \in Threads : ToolBuilt(t) =>
       LET args == targs[t].args
           p == payload[t]
           unmatched == /\ args.settlement # None /\ args.kod_yeshuv = None
                        /\ Len(args.settlement.v) > 0
                        /\ ExactPositions(args.settlement.v) = {}
           resolved == /\ Has(p, "KodYeshuv") /\ p["KodYeshuv"] # args.kod_yeshuv
                       /\ args.settlement # None
                       /\ \E i \in ExactPositions(args.settlement.v) :
                             p["KodYeshuv"] = PyInt(KOD_YESHUV_SETTLEMENTS[i].kod_yeshuv)
       IN /\ unmatched =>
                /\ Has(p, "Yishuv") /\ p["Yishuv"] = args.settlement
                /\ ~Has(p, "KodYeshuv")
          /\ (pc[t] = "done" /\ env[t].success) =>
                /\ unmatched =>
                      /\ Conversion(t).conversion_successful = FALSE
                      /\ Conversion(t).kod_yeshuv_resolved = None
                /\ Conversion(t).conversion_successful <=> resolved

\* a name that several entries are part of and none equals was sent as
\* Yishuv, and the tool has reported no conversion
C29_Witness ==
    /\ ToolBuilt("t1") /\ pc["t1"] = "done" /\ env["t1"].success
    /\ targs["t1"].args.settlement = PyStr(<<"a", "a", "a">>)
    /\ targs["t1"].args.kod_yeshuv = None
    /\ PartialPositions(<<"a", "a", "a">>) # {}
    /\ payload["t1"]["Yishuv"] = PyStr(<<"a", "a", "a">>)
    /\ Conversion("t1").conversion_successful = FALSE

\* C30: for max_results >= 0 and an upstream result sequence of length N, a
\* successful search_tenders tool call returns exactly the first
\* min(max_results, 1000, N) records in upstream order; the client is asked
\* for page_number 1 and page_size min(max_results, 1000).
C30_FirstRecordsInUpstreamOrder ==
    \A t \in Threads :
       (ToolSucceeded(t, {"search_tenders"}) /\ targs[t].args.max_results.v >= 0) =>
          LET max_results == targs[t].args.max_results.v
              upstream == UpstreamResults(t)
              n == Min(Min(max_results, 1000), Len(upstream))
          IN /\ req[t].page_number = 1
             /\ req[t].page_size = Min(max_results, 1000)
             /\ env[t].count = n
             /\ env[t].tenders = [i \in 1..n |-> upstream[i]]

\* a call asking for more than the cap, answered with more records than the
\* cap, has returned the first 1000 of them
C30_Witness ==
    /\ ToolSucceeded("t1", {"search_tenders"})
    /\ targs["t1"].args.max_results.v = MaxPageSizeOfTool + 1
    /\ Len(UpstreamResults("t1")) = MaxPageSizeOfTool + 1
    /\ env["t1"].count = MaxPageSizeOfTool
    /\ env["t1"].tenders[MaxPageSizeOfTool] = UpstreamResults("t1")[MaxPageSizeOfTool]

====
